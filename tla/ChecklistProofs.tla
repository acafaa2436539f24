--------------------------- MODULE ChecklistProofs --------------------------
(***************************************************************************)
(* The verdicts for any set of items and any number of iterations and      *)
(* reports.                                                                *)
(*                                                                         *)
(* The argument for the verdicts: a list agrees with the reports made in   *)
(* its iteration (FiledIn) whether a report is recorded or, being a        *)
(* success, is kept back by the program; a failure always gets through.    *)
(* In the table of the program a pass means that the latest report of the  *)
(* item was one.                                                           *)
(*                                                                         *)
(* The argument for what is stored: lists only grow (Grows), and until the *)
(* end an item of the runner's own has no result in any of them, so that   *)
(* the successes of a list are the items that passed; the sum over the     *)
(* lists and its quotient are monotonic, by induction over the lists.      *)
(***************************************************************************)
EXTENDS Checklist, SequenceTheorems, FiniteSetTheorems, WellFoundedInduction, TLAPS

Results == {"none", "pass", "fail"}
Lists == [Items \cup OwnItems -> Results]
Calls == [iteration : Nat, item : Items, ok : BOOLEAN]

\* The values of the variables the verdicts depend on.
Types ==
    /\ standalone \in BOOLEAN
    /\ table \in [Items -> Results]
    /\ base \in Lists
    /\ checklists \in Seq(Lists)
    /\ calls \in Seq(Calls)

\* The list of iteration i agrees with the reports cs.
In(cs, i, k) == {n \in DOMAIN cs : cs[n].iteration \in {0, i} /\ cs[n].item = k}

SomePassed(cs, reported) == \E n \in reported : cs[n].ok

FiledIn(cs, list, i) ==
    \A k \in Items :
        /\ list[k] = "pass" => SomePassed(cs, In(cs, i, k))
        /\ list[k] = "fail" => \E n \in In(cs, i, k) : ~cs[n].ok
        /\ list[k] = "none" => \A n \in In(cs, i, k) : cs[n].ok

\* What is in the table was reported last.
LatestPassed(cs, k) ==
    \E n \in DOMAIN cs :
        /\ cs[n].item = k
        /\ cs[n].ok
        /\ \A m \in DOMAIN cs : cs[m].item = k => m <= n

VInv ==
    /\ Types
    /\ \A n \in DOMAIN calls : calls[n].iteration <= Iteration
    /\ ~standalone => FiledIn(calls, base, 0)
    /\ \A i \in DOMAIN checklists : FiledIn(calls, checklists[i], i)
    /\ \A k \in Items : table[k] = "pass" => LatestPassed(calls, k)
    /\ standalone => checklists = <<>>
    /\ outcome = "succeeded" => phase = "over" /\ standalone /\ \A k \in Items : table[k] = "pass"

LEMMA CallsType ==
    ASSUME Types
    PROVE  \A n \in DOMAIN calls : calls[n] \in Calls /\ calls[n].iteration \in Nat
  <1>1. calls \in Seq(Calls)
    BY DEF Types
  <1>2. \A n \in DOMAIN calls : calls[n] \in Calls
    BY <1>1, LenProperties, ElementOfSeq
  <1> QED
    BY <1>2 DEF Calls

-----------------------------------------------------------------------------
(* One more report.                                                        *)

LEMMA AppendCall ==
    ASSUME NEW cs \in Seq(Calls), NEW c \in Calls
    PROVE  /\ Append(cs, c) \in Seq(Calls)
           /\ Len(cs) \in Nat
           /\ DOMAIN cs = 1..Len(cs)
           /\ DOMAIN Append(cs, c) = 1..(Len(cs) + 1)
           /\ \A n \in 1..Len(cs) : Append(cs, c)[n] = cs[n] /\ n < Len(cs) + 1
           /\ Append(cs, c)[Len(cs) + 1] = c
  <1>1. /\ Append(cs, c) \in Seq(Calls)
        /\ Len(Append(cs, c)) = Len(cs) + 1
        /\ \A n \in 1..Len(cs) : Append(cs, c)[n] = cs[n]
        /\ Append(cs, c)[Len(cs) + 1] = c
    BY AppendProperties
  <1>2. /\ Len(cs) \in Nat /\ DOMAIN cs = 1..Len(cs)
        /\ DOMAIN Append(cs, c) = 1..(Len(cs) + 1)
    BY <1>1, LenProperties
  <1> QED
    BY <1>1, <1>2

\* Which reports concern the list of an iteration.
LEMMA InAppend ==
    ASSUME NEW cs \in Seq(Calls), NEW c \in Calls, NEW i \in Nat, NEW k \in Items
    PROVE  /\ \A n \in In(cs, i, k) :
                 Append(cs, c)[n] = cs[n] /\ n < Len(cs) + 1 /\ n \in In(Append(cs, c), i, k)
           /\ \A n \in In(Append(cs, c), i, k) :
                 n \in In(cs, i, k)
                 \/ (n = Len(cs) + 1 /\ c.iteration \in {0, i} /\ c.item = k)
           /\ c.iteration \in {0, i} /\ c.item = k => Len(cs) + 1 \in In(Append(cs, c), i, k)
           /\ Append(cs, c)[Len(cs) + 1] = c
           /\ Len(cs) \in Nat
           /\ In(cs, i, k) \subseteq Nat
  <1>1. /\ Len(cs) \in Nat
        /\ DOMAIN cs = 1..Len(cs)
        /\ DOMAIN Append(cs, c) = 1..(Len(cs) + 1)
        /\ \A n \in 1..Len(cs) : Append(cs, c)[n] = cs[n] /\ n < Len(cs) + 1
        /\ Append(cs, c)[Len(cs) + 1] = c
    BY AppendCall
  <1>2. \A n \in 1..(Len(cs) + 1) : n \in 1..Len(cs) \/ n = Len(cs) + 1
    BY <1>1
  <1>3. 1..Len(cs) \subseteq 1..(Len(cs) + 1) /\ Len(cs) + 1 \in 1..(Len(cs) + 1)
    BY <1>1
  <1> QED
    BY <1>1, <1>2, <1>3 DEF In

\* A report of another iteration, or a success that is kept back.
LEMMA KeptBack ==
    ASSUME NEW cs \in Seq(Calls), NEW c \in Calls, NEW i \in Nat, NEW list \in Lists,
           FiledIn(cs, list, i), c.ok \/ c.iteration \notin {0, i}
    PROVE  FiledIn(Append(cs, c), list, i)
  <1> DEFINE all == Append(cs, c)
  <1> SUFFICES ASSUME NEW k \in Items
               PROVE  /\ list[k] = "pass" => SomePassed(all, In(all, i, k))
                      /\ list[k] = "fail" => \E n \in In(all, i, k) : ~all[n].ok
                      /\ list[k] = "none" => \A n \in In(all, i, k) : all[n].ok
    BY DEF FiledIn
  <1>1. /\ list[k] = "pass" => SomePassed(cs, In(cs, i, k))
        /\ list[k] = "fail" => \E n \in In(cs, i, k) : ~cs[n].ok
        /\ list[k] = "none" => \A n \in In(cs, i, k) : cs[n].ok
    BY DEF FiledIn
  <1>2. /\ \A n \in In(cs, i, k) : all[n] = cs[n] /\ n \in In(all, i, k)
        /\ \A n \in In(all, i, k) : n \in In(cs, i, k) \/ all[n].ok
    <2>1. /\ \A n \in In(cs, i, k) :
                 all[n] = cs[n] /\ n < Len(cs) + 1 /\ n \in In(all, i, k)
          /\ \A n \in In(all, i, k) :
                 n \in In(cs, i, k)
                 \/ (n = Len(cs) + 1 /\ c.iteration \in {0, i} /\ c.item = k)
          /\ c.iteration \in {0, i} /\ c.item = k => Len(cs) + 1 \in In(all, i, k)
          /\ all[Len(cs) + 1] = c
          /\ Len(cs) \in Nat
          /\ In(cs, i, k) \subseteq Nat
      BY InAppend, Zenon
    <2> HIDE DEF all
    <2> QED
      BY <2>1
  <1> HIDE DEF all
  <1> QED
    BY <1>1, <1>2 DEF SomePassed

\* A report that reaches the list.
LEMMA FilesReport ==
    ASSUME NEW cs \in Seq(Calls), NEW c \in Calls, NEW i \in Nat, NEW list \in Lists,
           FiledIn(cs, list, i), c.iteration \in {0, i}
    PROVE  FiledIn(Append(cs, c), Recorded(list, c.item, c.ok), i)
  <1> DEFINE all == Append(cs, c)
  <1> DEFINE new == Recorded(list, c.item, c.ok)
  <1> SUFFICES ASSUME NEW k \in Items
               PROVE  /\ new[k] = "pass" => SomePassed(all, In(all, i, k))
                      /\ new[k] = "fail" => \E n \in In(all, i, k) : ~all[n].ok
                      /\ new[k] = "none" => \A n \in In(all, i, k) : all[n].ok
    BY DEF FiledIn
  <1>1. /\ list[k] = "pass" => SomePassed(cs, In(cs, i, k))
        /\ list[k] = "fail" => \E n \in In(cs, i, k) : ~cs[n].ok
        /\ list[k] = "none" => \A n \in In(cs, i, k) : cs[n].ok
    BY DEF FiledIn
  <1>2. /\ \A n \in In(cs, i, k) :
              all[n] = cs[n] /\ n < Len(cs) + 1 /\ n \in In(all, i, k) /\ n \in Nat
        /\ \A n \in In(all, i, k) : n \in In(cs, i, k) \/ (n = Len(cs) + 1 /\ c.item = k)
        /\ c.item = k => Len(cs) + 1 \in In(all, i, k)
        /\ all[Len(cs) + 1] = c
        /\ Len(cs) \in Nat
    <2>1. /\ \A n \in In(cs, i, k) :
                 all[n] = cs[n] /\ n < Len(cs) + 1 /\ n \in In(all, i, k)
          /\ \A n \in In(all, i, k) :
                 n \in In(cs, i, k)
                 \/ (n = Len(cs) + 1 /\ c.iteration \in {0, i} /\ c.item = k)
          /\ c.iteration \in {0, i} /\ c.item = k => Len(cs) + 1 \in In(all, i, k)
          /\ all[Len(cs) + 1] = c
          /\ Len(cs) \in Nat
          /\ In(cs, i, k) \subseteq Nat
      BY InAppend, Zenon
    <2> HIDE DEF all
    <2> QED
      BY <2>1
  <1>3. CASE c.item # k
    <2>1. new[k] = list[k]
      BY <1>3 DEF Recorded, Lists
    <2> HIDE DEF all, new
    <2> QED
      BY <1>1, <1>2, <1>3, <2>1 DEF SomePassed
  <1>4. CASE c.item = k /\ list[k] # "none"
    <2>1. new[k] = list[k]
      BY <1>4 DEF Recorded
    <2> HIDE DEF all, new
    <2>2. ASSUME list[k] = "pass" PROVE SomePassed(all, In(all, i, k))
      BY <1>1, <1>2, <2>2 DEF SomePassed
    <2>3. list[k] = "fail" => \E n \in In(all, i, k) : ~all[n].ok
      BY <1>1, <1>2
    <2> QED
      BY <1>4, <2>1, <2>2, <2>3
  <1>5. CASE c.item = k /\ list[k] = "none"
    <2>1. new[k] = IF c.ok THEN "pass" ELSE "fail"
      BY <1>5 DEF Recorded, Result, Lists
    <2> HIDE DEF all, new
    <2> QED
      BY <1>1, <1>2, <1>5, <2>1 DEF SomePassed
  <1> QED
    BY <1>3, <1>4, <1>5

\* The table.
LEMMA LatestAfter ==
    ASSUME NEW cs \in Seq(Calls), NEW c \in Calls, NEW k \in Items
    PROVE  /\ c.item = k /\ c.ok => LatestPassed(Append(cs, c), k)
           /\ c.item # k /\ LatestPassed(cs, k) => LatestPassed(Append(cs, c), k)
  <1>1. /\ Len(cs) \in Nat
        /\ DOMAIN cs = 1..Len(cs)
        /\ DOMAIN Append(cs, c) = 1..(Len(cs) + 1)
        /\ \A n \in 1..Len(cs) : Append(cs, c)[n] = cs[n] /\ n < Len(cs) + 1
        /\ Append(cs, c)[Len(cs) + 1] = c
    BY AppendCall
  <1>2. ASSUME c.item = k, c.ok PROVE LatestPassed(Append(cs, c), k)
    <2>1. Len(cs) + 1 \in DOMAIN Append(cs, c)
      BY <1>1
    <2>2. \A m \in DOMAIN Append(cs, c) : m <= Len(cs) + 1
      BY <1>1
    <2> QED
      BY <1>1, <1>2, <2>1, <2>2 DEF LatestPassed
  <1>3. ASSUME c.item # k, LatestPassed(cs, k) PROVE LatestPassed(Append(cs, c), k)
    <2>1. PICK n \in DOMAIN cs :
              /\ cs[n].item = k
              /\ cs[n].ok
              /\ \A m \in DOMAIN cs : cs[m].item = k => m <= n
      BY <1>3 DEF LatestPassed
    <2>2. \A m \in DOMAIN Append(cs, c) : m \in DOMAIN cs \/ m = Len(cs) + 1
      BY <1>1
    <2> QED
      BY <1>1, <1>3, <2>1, <2>2 DEF LatestPassed
  <1> QED
    BY <1>2, <1>3

-----------------------------------------------------------------------------
(* The steps.                                                              *)

LEMMA InitVInv == Init => VInv
  <1> SUFFICES ASSUME Init PROVE VInv
    OBVIOUS
  <1>1. /\ checklists = <<>> /\ calls = <<>> /\ outcome = "none"
        /\ base = [k \in Items \cup OwnItems |-> "none"]
        /\ table = [k \in Items |-> "none"]
        /\ standalone \in BOOLEAN
    BY DEF Init, Nothing
  <1>2. DOMAIN <<>> = {} /\ <<>> \in Seq(Lists) /\ <<>> \in Seq(Calls)
    OBVIOUS
  <1>3. base \in Lists /\ table \in [Items -> Results]
    BY <1>1 DEF Lists, Results
  <1>4. Types
    BY <1>1, <1>2, <1>3 DEF Types
  <1>5. FiledIn(calls, base, 0)
    <2>1. \A k \in Items : base[k] = "none" /\ In(calls, 0, k) = {}
      BY <1>1, <1>2 DEF In
    <2> QED
      BY <2>1 DEF FiledIn
  <1> QED
    BY <1>1, <1>2, <1>4, <1>5 DEF VInv

\* The list an item is recorded in.
LEMMA RecordedType ==
    ASSUME NEW list \in Lists, NEW k \in Items \cup OwnItems, NEW ok \in BOOLEAN
    PROVE  Recorded(list, k, ok) \in Lists
BY DEF Recorded, Result, Lists, Results

LEMMA IterationType ==
    ASSUME Types
    PROVE  /\ Iteration \in Nat
           /\ DOMAIN checklists = 1..Iteration
           /\ \A i \in DOMAIN checklists : checklists[i] \in Lists /\ i \in Nat
           /\ Iteration = 0 <=> checklists = <<>>
  <1>1. checklists \in Seq(Lists)
    BY DEF Types
  <1> QED
    BY <1>1, LenProperties, EmptySeq, ElementOfSeq DEF Iteration

\* An item of the runner's own changes no verdict on an item of the program.
LEMMA OwnItemKeeps ==
    ASSUME NEW cs, NEW list \in Lists, NEW i, NEW k \in OwnItems, NEW ok, FiledIn(cs, list, i)
    PROVE  FiledIn(cs, Recorded(list, k, ok), i)
  <1>1. \A q \in Items : Recorded(list, k, ok)[q] = list[q]
    BY ItemsAssumption DEF ItemsAssumption, Recorded, Lists
  <1> QED
    BY <1>1 DEF FiledIn

\* stop() and tearDown()
LEMMA OwnItemKeepsVInv ==
    ASSUME VInv, NEW k \in OwnItems, NEW ok \in BOOLEAN, ValidateChecklistItem(k, ok),
           ~standalone, UNCHANGED <<standalone, table, outcome, calls>>
    PROVE  VInv'
  <1> USE IterationType DEF VInv
  <1>1. CASE Iteration = 0
    <2>1. base' = Recorded(base, k, ok) /\ checklists' = checklists
      BY <1>1 DEF ValidateChecklistItem
    <2>2. Types'
      BY <2>1, RecordedType DEF Types
    <2>3. FiledIn(calls, base', 0)
      BY <2>1, OwnItemKeeps DEF Types
    <2> QED
      BY <2>1, <2>2, <2>3 DEF Iteration
  <1>2. CASE Iteration # 0
    <2> DEFINE new == Recorded(checklists[Iteration], k, ok)
    <2>1. base' = base /\ checklists' = [checklists EXCEPT ![Iteration] = new]
      BY <1>2 DEF ValidateChecklistItem
    <2>2. Iteration \in DOMAIN checklists /\ checklists[Iteration] \in Lists
      BY <1>2
    <2>3. new \in Lists /\ FiledIn(calls, new, Iteration)
      BY <2>2, RecordedType, OwnItemKeeps
    <2> HIDE DEF new
    <2>4. checklists' \in Seq(Lists) /\ Len(checklists') = Len(checklists)
          /\ DOMAIN checklists' = DOMAIN checklists
      BY <2>1, <2>2, <2>3, ExceptSeq, LenProperties DEF Types
    <2>5. Types' /\ Iteration' = Iteration
      BY <2>1, <2>4 DEF Types, Iteration
    <2>6. \A i \in DOMAIN checklists' : FiledIn(calls, checklists'[i], i)
      BY <2>1, <2>2, <2>3, <2>4 DEF Types
    <2> QED
      BY <2>1, <2>4, <2>5, <2>6
  <1> QED
    BY <1>1, <1>2

\* start()
LEMMA StartKeepsVInv ==
    ASSUME VInv, Start
    PROVE  VInv'
  <1> USE DEF VInv
  <1> DEFINE new == Recorded(base, "test-started", TRUE)
  <1>1. /\ checklists' = Append(checklists, new)
        /\ ~standalone
        /\ UNCHANGED <<standalone, table, base, outcome, calls>>
    BY DEF Start
  <1>2. new \in Lists /\ FiledIn(calls, new, 0)
    <2>1. "test-started" \in OwnItems /\ base \in Lists
      BY DEF OwnItems, Types
    <2> QED
      BY <1>1, <2>1, RecordedType, OwnItemKeeps
  <1>3. FiledIn(calls, new, Iteration + 1)
    <2>1. \A n \in DOMAIN calls : calls[n].iteration \in Nat /\ calls[n].iteration <= Iteration
      BY CallsType
    <2>2. \A k \in Items : In(calls, Iteration + 1, k) = In(calls, 0, k)
      BY <2>1, IterationType DEF In
    <2> QED
      BY <1>2, <2>2 DEF FiledIn
  <1> HIDE DEF new
  <1>4. /\ checklists' \in Seq(Lists)
        /\ Len(checklists') = Iteration + 1
        /\ \A i \in 1..Iteration : checklists'[i] = checklists[i]
        /\ checklists'[Iteration + 1] = new
    BY <1>1, <1>2, AppendProperties DEF Types, Iteration
  <1>5. DOMAIN checklists' = 1..(Iteration + 1)
    BY <1>4, LenProperties
  <1>6. Types' /\ Iteration' = Iteration + 1
    BY <1>1, <1>4 DEF Types, Iteration
  <1>7. \A i \in DOMAIN checklists' : FiledIn(calls, checklists'[i], i)
    <2>1. \A i \in DOMAIN checklists' : i \in 1..Iteration \/ i = Iteration + 1
      BY <1>5, IterationType
    <2> QED
      BY <1>3, <1>4, <2>1, IterationType
  <1>8. \A n \in DOMAIN calls : calls[n].iteration <= Iteration + 1
    <2>1. \A n \in DOMAIN calls : calls[n].iteration \in Nat /\ calls[n].iteration <= Iteration
      BY CallsType
    <2> QED
      BY <2>1, IterationType
  <1> QED
    BY <1>1, <1>6, <1>7, <1>8

\* A report of the program.
LEMMA ReportKeepsVInv ==
    ASSUME VInv, NEW k \in Items, NEW ok \in BOOLEAN, Report(k, ok)
    PROVE  VInv'
  <1> USE DEF VInv
  <1> DEFINE c == [iteration |-> Iteration, item |-> k, ok |-> ok]
  <1>1. /\ c \in Calls
        /\ c.iteration = Iteration /\ c.item = k /\ c.ok = ok
        /\ calls' = Append(calls, c)
        /\ phase # "over"
        /\ UNCHANGED <<standalone, outcome>>
    BY IterationType DEF Report, Calls
  <1> HIDE DEF c
  <1>2. /\ calls \in Seq(Calls) /\ calls' \in Seq(Calls)
        /\ \A n \in DOMAIN calls' : n \in DOMAIN calls \/ n = Len(calls) + 1
        /\ \A n \in DOMAIN calls : calls'[n] = calls[n]
        /\ calls'[Len(calls) + 1] = c
    BY <1>1, AppendCall DEF Types
  <1>3. table' \in [Items -> Results] /\ \A q \in Items : table'[q] = "pass" => LatestPassed(calls', q)
    <2>1. \A q \in Items \ {k} : table'[q] = table[q] /\ (table[q] = "pass" => LatestPassed(calls', q))
      BY <1>1, <1>2, LatestAfter DEF Report, Types
    <2>2. table'[k] = "pass" => ok
      BY DEF Report, Types, Suppressed, Result
    <2>3. ok => LatestPassed(calls', k)
      BY <1>1, <1>2, LatestAfter
    <2>4. table' \in [Items -> Results]
      BY DEF Report, Types, Result, Results
    <2> QED
      BY <2>1, <2>2, <2>3, <2>4
  <1>4. outcome' # "succeeded"
    BY <1>1
  <1>5. CASE standalone
    <2>1. UNCHANGED <<base, checklists>> /\ Iteration' = Iteration /\ checklists' = <<>>
      BY <1>5 DEF Report, Iteration
    <2>2. Types'
      BY <1>1, <1>2, <1>3, <2>1 DEF Types
    <2>3. \A n \in DOMAIN calls' : calls'[n].iteration <= Iteration'
      BY <1>1, <1>2, <2>1, IterationType
    <2>4. DOMAIN checklists' = {}
      BY <2>1
    <2> QED
      BY <1>1, <1>3, <1>4, <1>5, <2>1, <2>2, <2>3, <2>4
  <1>6. CASE ~standalone /\ Suppressed(k, ok)
    <2>1. ok /\ UNCHANGED <<base, checklists>> /\ Iteration' = Iteration
      BY <1>6 DEF Report, Iteration, Suppressed
    <2>2. Types'
      BY <1>1, <1>2, <1>3, <2>1 DEF Types
    <2>3. \A n \in DOMAIN calls' : calls'[n].iteration <= Iteration'
      BY <1>1, <1>2, <2>1, IterationType
    <2>4. FiledIn(calls', base', 0)
      BY <1>1, <1>2, <1>6, <2>1, KeptBack DEF Types
    <2>5. \A i \in DOMAIN checklists' : FiledIn(calls', checklists'[i], i)
      BY <1>1, <1>2, <2>1, KeptBack, IterationType
    <2> QED
      BY <1>1, <1>3, <1>4, <1>6, <2>1, <2>2, <2>3, <2>4, <2>5
  <1>7. CASE ~standalone /\ ~Suppressed(k, ok)
    <2>1. ValidateChecklistItem(k, ok)
      BY <1>7 DEF Report
    <2>2. CASE Iteration = 0
      <3>1. base' = Recorded(base, k, ok) /\ checklists' = checklists /\ Iteration' = Iteration
        BY <2>1, <2>2 DEF ValidateChecklistItem, Iteration
      <3>2. base' \in Lists /\ FiledIn(calls', base', 0)
        BY <1>1, <1>2, <1>7, <2>2, <3>1, FilesReport, RecordedType DEF Types
      <3>3. Types'
        BY <1>1, <1>2, <1>3, <3>1, <3>2 DEF Types
      <3>4. DOMAIN checklists' = {}
        BY <2>2, <3>1, IterationType
      <3>5. \A n \in DOMAIN calls' : calls'[n].iteration <= Iteration'
        BY <1>1, <1>2, <3>1, IterationType
      <3> QED
        BY <1>1, <1>3, <1>4, <1>7, <3>2, <3>3, <3>4, <3>5
    <2>3. CASE Iteration # 0
      <3> DEFINE new == Recorded(checklists[Iteration], k, ok)
      <3>1. base' = base /\ checklists' = [checklists EXCEPT ![Iteration] = new]
        BY <2>1, <2>3 DEF ValidateChecklistItem
      <3>2. /\ Iteration \in DOMAIN checklists /\ checklists[Iteration] \in Lists
            /\ Iteration \in Nat
        BY <2>3, IterationType
      <3>3. new \in Lists /\ FiledIn(calls', new, Iteration)
        BY <1>1, <1>2, <3>2, FilesReport, RecordedType
      <3> HIDE DEF new
      <3>4. checklists' \in Seq(Lists) /\ Len(checklists') = Len(checklists)
            /\ DOMAIN checklists' = DOMAIN checklists
        BY <3>1, <3>2, <3>3, ExceptSeq, LenProperties DEF Types
      <3>5. Types' /\ Iteration' = Iteration
        BY <1>1, <1>2, <1>3, <3>1, <3>4 DEF Types, Iteration
      <3>6. ASSUME NEW i \in DOMAIN checklists', i # Iteration
            PROVE  FiledIn(calls', checklists'[i], i)
        <4>1. /\ i \in DOMAIN checklists /\ i \in Nat /\ i \notin {0} /\ checklists[i] \in Lists
              /\ checklists'[i] = checklists[i]
          BY <3>1, <3>4, <3>6, IterationType DEF Types
        <4>2. c.iteration \notin {0, i}
          BY <1>1, <2>3, <3>6, <4>1
        <4> QED
          BY <1>1, <1>2, <4>1, <4>2, KeptBack
      <3>7. FiledIn(calls', checklists'[Iteration], Iteration)
        BY <3>1, <3>2, <3>3 DEF Types
      <3>8. FiledIn(calls', base', 0)
        <4>1. c.iteration \notin {0, 0}
          BY <1>1, <2>3
        <4> QED
          BY <1>1, <1>2, <1>7, <3>1, <4>1, KeptBack DEF Types
      <3>9. \A n \in DOMAIN calls' : calls'[n].iteration <= Iteration'
        BY <1>1, <1>2, <3>2, <3>5
      <3> QED
        BY <1>1, <1>3, <1>4, <1>7, <3>5, <3>6, <3>7, <3>8, <3>9
    <2> QED
      BY <2>2, <2>3
  <1> QED
    BY <1>5, <1>6, <1>7

\* A program without a runner.
LEMMA StandaloneKeepsVInv ==
    ASSUME VInv, RunStandalone \/ EndStandalone
    PROVE  VInv'
  <1>1. /\ UNCHANGED <<standalone, table, base, checklists, calls>>
        /\ standalone
    BY DEF RunStandalone, EndStandalone, runner
  <1>2. outcome' = "succeeded" => phase' = "over" /\ \A k \in Items : table[k] = "pass"
    <2>1. CASE RunStandalone
      BY <2>1 DEF RunStandalone, VInv
    <2>2. CASE EndStandalone
      <3>1. ASSUME FailedTests = 0 PROVE \A k \in Items : table[k] = "pass"
        <4>1. IsFiniteSet({k \in Items : table[k] # "pass"})
          BY ItemsAssumption, FS_Subset DEF ItemsAssumption
        <4>2. {k \in Items : table[k] # "pass"} = {}
          BY <3>1, <4>1, FS_EmptySet DEF FailedTests
        <4> QED
          BY <4>2
      <3> QED
        BY <2>2, <3>1 DEF EndStandalone
    <2> QED
      BY <2>1, <2>2
  <1>3. Types' /\ Iteration' = Iteration
    BY <1>1 DEF VInv, Types, Iteration
  <1> QED
    BY <1>1, <1>2, <1>3 DEF VInv

LEMMA NextVInv == VInv /\ [Next]_vars => VInv'
  <1> SUFFICES ASSUME VInv, [Next]_vars PROVE VInv'
    OBVIOUS
  <1>1. CASE \E k \in Items, ok \in BOOLEAN : Report(k, ok)
    BY <1>1, ReportKeepsVInv
  <1>2. CASE Start
    BY <1>2, StartKeepsVInv
  <1>3. CASE Stop
    <2>1. /\ "no-timeout" \in OwnItems
          /\ \E ok \in BOOLEAN : ValidateChecklistItem("no-timeout", ok)
          /\ ~standalone /\ UNCHANGED <<standalone, table, outcome, calls>>
      BY <1>3 DEF Stop, OwnItems
    <2> QED
      BY <2>1, OwnItemKeepsVInv
  <1>4. CASE TearDown
    <2>1. /\ "subprocess-exited-normally" \in OwnItems
          /\ \E ok \in BOOLEAN : ValidateChecklistItem("subprocess-exited-normally", ok)
          /\ ~standalone /\ UNCHANGED <<standalone, table, outcome, calls>>
      BY <1>4 DEF TearDown, OwnItems
    <2> QED
      BY <2>1, OwnItemKeepsVInv
  <1>5. CASE RunStandalone \/ EndStandalone
    BY <1>5, StandaloneKeepsVInv
  <1>6. CASE UNCHANGED vars
    <2>1. Types' /\ Iteration' = Iteration
      BY <1>6 DEF VInv, Types, Iteration, vars, runner
    <2> QED
      BY <1>6, <2>1 DEF VInv, vars, runner
  <1> QED
    BY <1>1, <1>2, <1>3, <1>4, <1>5, <1>6 DEF Next

LEMMA VInvImplies == VInv => VerdictsAreReported
  <1> SUFFICES ASSUME VInv PROVE VerdictsAreReported
    OBVIOUS
  <1>1. \A i, k : ReportedIn(i, k) = In(calls, i, k)
    BY DEF ReportedIn, In
  <1>2. \A i \in DOMAIN checklists : FiledIn(calls, checklists[i], i)
    BY DEF VInv
  <1>3. ASSUME outcome = "succeeded", NEW k \in Items
        PROVE  \E n \in ReportedIn(0, k) : calls[n].ok
    <2>1. \A n \in DOMAIN calls : calls[n].iteration = 0
      <3>1. calls \in Seq(Calls) /\ Types /\ checklists = <<>>
        BY <1>3 DEF VInv, Types
      <3>2. \A n \in DOMAIN calls : calls[n].iteration \in Nat
        BY <3>1, CallsType
      <3>3. \A n \in DOMAIN calls : calls[n].iteration <= 0
        BY <3>1, IterationType DEF VInv
      <3> QED
        BY <3>2, <3>3
    <2>2. LatestPassed(calls, k)
      BY <1>3 DEF VInv
    <2> QED
      BY <2>1, <2>2 DEF LatestPassed, ReportedIn
  <1>4. ASSUME NEW i \in DOMAIN checklists, NEW k \in Items
        PROVE  LET reported == {calls[n].ok : n \in ReportedIn(i, k)}
                   result == checklists[i][k]
               IN  /\ result = "pass" => TRUE \in reported
                   /\ result = "fail" => FALSE \in reported
                   /\ result = "none" => FALSE \notin reported
    <2>1. /\ checklists[i][k] = "pass" => \E n \in ReportedIn(i, k) : calls[n].ok
          /\ checklists[i][k] = "fail" => \E n \in ReportedIn(i, k) : ~calls[n].ok
          /\ checklists[i][k] = "none" => \A n \in ReportedIn(i, k) : calls[n].ok
      BY <1>1, <1>2 DEF FiledIn, SomePassed
    <2>2. \A n \in ReportedIn(i, k) : calls[n].ok \in BOOLEAN
      <3>1. Types
        BY DEF VInv
      <3> QED
        BY <3>1, CallsType DEF ReportedIn, Calls
    <2> QED
      BY <2>1, <2>2, Zenon
  <1> QED
    BY <1>3, <1>4 DEF VerdictsAreReported

\* A verdict of the runner or of a standalone run is one the program reported,
\* for any items and in any order of reports and iterations, and a failure is
\* never counted as skipped
\* (lib/insanity/insanitytest.c 540-583, test.py 473-505).
THEOREM VerdictsAreReportedTheorem == Spec => []VerdictsAreReported
BY InitVInv, NextVInv, VInvImplies, PTL DEF Spec

-----------------------------------------------------------------------------
(* Sums and quotients.                                                     *)

\* Induction: a set of numbers that is not empty has a least element.
LEMMA LeastNumber ==
    ASSUME NEW T \in SUBSET Nat, T # {}
    PROVE  \E m \in T : \A k \in T : m <= k
  <1> DEFINE Less == {r \in Nat \X Nat : r[1] < r[2]}
  <1>1. IsWellFoundedOn(Less, Nat)
    BY NatLessThanWellFounded DEF OpToRel
  <1> HIDE DEF Less
  <1>2. PICK m \in T : \A k \in T : ~(<<k, m>> \in Less)
    BY <1>1, WFMin
  <1>3. ASSUME NEW k \in T
        PROVE  m <= k
    <2>1. m \in Nat /\ k \in Nat
      OBVIOUS
    <2>2. ~(k < m)
      BY <1>2, <2>1 DEF Less
    <2> QED
      BY <2>1, <2>2
  <1> QED
    BY <1>3

LEMMA OneByOne ==
    ASSUME NEW n \in Nat, NEW Holds \in SUBSET Nat, 0 \in Holds,
           \A k \in 1..n : k - 1 \in Holds => k \in Holds
    PROVE  0..n \subseteq Holds
  <1> DEFINE T == (0..n) \ Holds
  <1> SUFFICES ASSUME T # {}
               PROVE  FALSE
    OBVIOUS
  <1>0. T \in SUBSET Nat
    OBVIOUS
  <1> HIDE DEF T
  <1>1. PICK m \in T : \A k \in T : m <= k
    BY <1>0, LeastNumber
  <1> USE DEF T
  <1>2. m \in 1..n /\ m - 1 \in 0..n
    BY <1>1
  <1>3. m - 1 \notin T
    BY <1>1, <1>2
  <1> QED
    BY <1>1, <1>2, <1>3

IsSum(s, f) ==
    s = [n \in 0..Len(f) |-> IF n = 0 THEN 0 ELSE s[n - 1] + f[n]]
Sum(f) == CHOOSE s : IsSum(s, f)

\* There is such a sum, by one more number at a time.
LEMMA SumExists ==
    ASSUME NEW f \in Seq(Nat)
    PROVE  \E s : IsSum(s, f)
  <1> DEFINE UpTo(m, s) ==
          /\ s \in [0..m -> Nat]
          /\ s[0] = 0
          /\ \A k \in 1..m : s[k] = s[k - 1] + f[k]
             Holds == {m \in 0..Len(f) : \E s : UpTo(m, s)}
  <1>0. Len(f) \in Nat /\ \A k \in 1..Len(f) : f[k] \in Nat
    BY LenProperties, ElementOfSeq
  <1>1. 0 \in Holds
    <2> DEFINE s == [k \in 0..0 |-> 0]
    <2>1. s \in [0..0 -> Nat] /\ s[0] = 0
      OBVIOUS
    <2>2. \A k \in 1..0 : FALSE
      OBVIOUS
    <2> HIDE DEF s
    <2>3. UpTo(0, s)
      BY <2>1, <2>2
    <2> QED
      BY <1>0, <2>3
  <1>2. ASSUME NEW k \in 1..Len(f), k - 1 \in Holds
        PROVE  k \in Holds
    <2>1. PICK s : UpTo(k - 1, s)
      BY <1>2
    <2> DEFINE t == [i \in 0..k |-> IF i = k THEN s[k - 1] + f[k] ELSE s[i]]
    <2>2. k \in Nat /\ k # 0 /\ k \in 0..Len(f) /\ k - 1 \in 0..(k - 1)
      BY <1>0
    <2>3. s[k - 1] + f[k] \in Nat
      <3>1. s[k - 1] \in Nat /\ f[k] \in Nat
        BY <1>0, <2>1, <2>2
      <3> QED
        BY <3>1
    <2>4. \A i \in 0..k : i # k => i \in 0..(k - 1)
      BY <2>2
    <2>5. t \in [0..k -> Nat] /\ t[0] = 0
      BY <2>1, <2>2, <2>3, <2>4
    <2>6. \A i \in 1..k : t[i] = t[i - 1] + f[i]
      <3> TAKE i \in 1..k
      <3>1. CASE i = k
        BY <3>1, <2>2
      <3>2. CASE i # k
        BY <3>2, <2>1, <2>2
      <3> QED
        BY <3>1, <3>2
    <2> HIDE DEF t
    <2>7. UpTo(k, t)
      BY <2>5, <2>6
    <2> QED
      BY <2>2, <2>7
  <1> HIDE DEF UpTo
  <1>3. Len(f) \in Holds
    <2>1. Holds \in SUBSET Nat /\ Len(f) \in 0..Len(f)
      BY <1>0
    <2> HIDE DEF Holds
    <2> QED
      BY <1>0, <1>1, <1>2, <2>1, OneByOne
  <1>4. PICK s : UpTo(Len(f), s)
    BY <1>3
  <1>5. \A k \in 0..Len(f) : s[k] = IF k = 0 THEN 0 ELSE s[k - 1] + f[k]
    BY <1>0, <1>4 DEF UpTo
  <1>6. s = [k \in 0..Len(f) |-> IF k = 0 THEN 0 ELSE s[k - 1] + f[k]]
    BY <1>4, <1>5 DEF UpTo
  <1> QED
    BY <1>6 DEF IsSum

LEMMA SumProperties ==
    ASSUME NEW f \in Seq(Nat)
    PROVE  /\ Sum(f)[0] = 0
           /\ \A k \in 1..Len(f) : Sum(f)[k] = Sum(f)[k - 1] + f[k]
           /\ \A k \in 0..Len(f) : Sum(f)[k] \in Nat
           /\ Total(f) = Sum(f)[Len(f)]
  <1> DEFINE s == Sum(f)
             Holds == {k \in 0..Len(f) : s[k] \in Nat}
  <1>0. Len(f) \in Nat /\ \A k \in 1..Len(f) : f[k] \in Nat
    BY LenProperties, ElementOfSeq
  <1>1. IsSum(s, f)
    BY SumExists DEF Sum
  <1>2. Total(f) = s[Len(f)]
    BY DEF Total, Sum, IsSum
  <1> HIDE DEF s
  <1>3. s[0] = 0 /\ \A k \in 1..Len(f) : s[k] = s[k - 1] + f[k]
    <2>1. s = [k \in 0..Len(f) |-> IF k = 0 THEN 0 ELSE s[k - 1] + f[k]]
      BY <1>1 DEF IsSum
    <2>2. 0 \in 0..Len(f)
      BY <1>0
    <2>3. \A k \in 1..Len(f) : k \in 0..Len(f) /\ k # 0
      BY <1>0
    <2> QED
      BY <2>1, <2>2, <2>3
  <1>4. 0 \in Holds
    BY <1>0, <1>3
  <1>5. ASSUME NEW k \in 1..Len(f), k - 1 \in Holds
        PROVE  k \in Holds
    <2>1. k \in 0..Len(f) /\ s[k - 1] \in Nat /\ f[k] \in Nat
      BY <1>0, <1>5
    <2> QED
      BY <1>3, <2>1
  <1>6. Holds \in SUBSET Nat
    BY <1>0
  <1> HIDE DEF Holds
  <1>7. 0..Len(f) \subseteq Holds
    BY <1>0, <1>4, <1>5, <1>6, OneByOne
  <1> QED
    BY <1>2, <1>3, <1>7 DEF Holds, s

LEMMA TotalGrows ==
    ASSUME NEW f \in Seq(Nat), NEW g \in Seq(Nat), Len(f) = Len(g),
           \A k \in 1..Len(f) : f[k] <= g[k]
    PROVE  Total(f) \in Nat /\ Total(g) \in Nat /\ Total(f) <= Total(g)
  <1> DEFINE s == Sum(f)
             t == Sum(g)
             Holds == {k \in 0..Len(f) : s[k] <= t[k]}
  <1>0. /\ Len(f) \in Nat
        /\ \A k \in 1..Len(f) : f[k] \in Nat /\ g[k] \in Nat
    BY LenProperties, ElementOfSeq
  <1>1. /\ s[0] = 0
        /\ \A k \in 1..Len(f) : s[k] = s[k - 1] + f[k]
        /\ \A k \in 0..Len(f) : s[k] \in Nat
        /\ Total(f) = s[Len(f)]
    BY SumProperties
  <1>2. /\ t[0] = 0
        /\ \A k \in 1..Len(f) : t[k] = t[k - 1] + g[k]
        /\ \A k \in 0..Len(f) : t[k] \in Nat
        /\ Total(g) = t[Len(f)]
    BY SumProperties
  <1> HIDE DEF s, t
  <1>3. 0 \in Holds
    BY <1>0, <1>1, <1>2
  <1>4. ASSUME NEW k \in 1..Len(f), k - 1 \in Holds
        PROVE  k \in Holds
    <2>1. /\ k \in 0..Len(f) /\ k - 1 \in 0..Len(f)
          /\ f[k] \in Nat /\ g[k] \in Nat /\ f[k] <= g[k]
      BY <1>0
    <2>2. /\ s[k - 1] \in Nat /\ t[k - 1] \in Nat /\ s[k - 1] <= t[k - 1]
          /\ s[k] = s[k - 1] + f[k] /\ t[k] = t[k - 1] + g[k]
      BY <1>1, <1>2, <1>4, <2>1
    <2> QED
      BY <2>1, <2>2
  <1>5. Holds \in SUBSET Nat /\ Len(f) \in 0..Len(f)
    BY <1>0
  <1> HIDE DEF Holds
  <1>6. Len(f) \in Holds
    BY <1>0, <1>3, <1>4, <1>5, OneByOne
  <1> QED
    BY <1>1, <1>2, <1>5, <1>6 DEF Holds

LEMMA QuotientGrows ==
    ASSUME NEW a \in Nat, NEW b \in Nat, NEW m \in Nat \ {0}, a <= b
    PROVE  a \div m <= b \div m /\ a \div m \in Int /\ b \div m \in Int
  <1>1. /\ a \div m \in Int /\ b \div m \in Int
        /\ (a \div m) * m <= a
        /\ b < (b \div m) * m + m
    OBVIOUS
  <1>2. ASSUME b \div m < a \div m
        PROVE  FALSE
    <2> DEFINE p == a \div m
               q == b \div m
    <2>1. /\ p \in Int /\ q \in Int /\ q < p
          /\ p * m <= a /\ b < q * m + m
      BY <1>1, <1>2
    <2> HIDE DEF p, q
    <2>2. PICK d \in Nat : p = q + 1 + d
      <3>1. p - q - 1 \in Nat /\ p = q + 1 + (p - q - 1)
        BY <2>1
      <3> QED
        BY <3>1
    <2>3. p * m = q * m + m + d * m
      BY <2>1, <2>2
    <2>4. d * m \in Nat /\ q * m \in Int
      BY <2>1, <2>2
    <2> QED
      BY <2>1, <2>3, <2>4
  <1> QED
    BY <1>1, <1>2


-----------------------------------------------------------------------------
(* What is stored stays.                                                   *)

\* The item that tearDown() records, and nobody else.
Last == "subprocess-exited-normally"

\* A list in which every item that has a result keeps it.
Grows(list, new) == \A k \in DOMAIN list : list[k] # "none" => new[k] = list[k]

\* A failure that is expected is known to be, and the last item is open until
\* the end.
ExpectedIn(list) == \A k \in ExpectedFailures : list[k] = "fail" => k \in expected
ExpectedBook ==
    /\ expected \subseteq ExpectedFailures
    /\ ExpectedIn(base)
    /\ \A i \in DOMAIN checklists : ExpectedIn(checklists[i])

OpenBook ==
    ~standalone /\ phase # "over" =>
        /\ base[Last] = "none"
        /\ \A i \in DOMAIN checklists : checklists[i][Last] = "none"

\* Every iteration that has been stopped has a percentage, which its list does
\* not fall below.
PercentageBook ==
    /\ percentages \in Seq(Int)
    /\ ~standalone /\ phase = "setup" => Iteration = 0
    /\ Iteration = Len(percentages) + (IF phase = "running" /\ ~standalone THEN 1 ELSE 0)
    /\ \A i \in DOMAIN percentages :
          percentages[i] <= Percentage(SubSeq(checklists, 1, i))

PInv == ExpectedBook /\ OpenBook /\ PercentageBook

LEMMA ItemsFinite ==
    /\ IsFiniteSet(Items \cup OwnItems)
    /\ Cardinality(Possible) \in Nat \ {0}
    /\ Last \in OwnItems
    /\ Last \notin ExpectedSkips /\ Last \notin ExpectedFailures
    /\ "no-timeout" \notin ExpectedFailures
    /\ "no-timeout" # Last /\ "test-started" # Last
    /\ ExpectedFailures \subseteq Items /\ Last \notin Items
  <1>1. IsFiniteSet(Items) /\ ExpectedFailures \cup ExpectedSkips \subseteq Items
        /\ Items \cap (OwnItems \cup {"no-unexpected-failures"}) = {}
    BY ItemsAssumption DEF ItemsAssumption
  <1>2. IsFiniteSet((({} \cup {"test-started"}) \cup {"no-timeout"}) \cup {Last})
    BY FS_EmptySet, FS_AddElement
  <1>3. OwnItems = (({} \cup {"test-started"}) \cup {"no-timeout"}) \cup {Last}
    BY DEF OwnItems, Last
  <1>4. IsFiniteSet(Items \cup OwnItems)
    BY <1>1, <1>2, <1>3, FS_Union
  <1>5. IsFiniteSet(Possible)
    BY <1>4, FS_AddElement DEF Possible
  <1>6. Possible # {} /\ Cardinality(Possible) \in Nat
    BY <1>5, FS_CardinalityType DEF Possible
  <1>7. Cardinality(Possible) # 0
    BY <1>5, <1>6, FS_EmptySet
  <1>8. Last \in OwnItems /\ "no-timeout" \in OwnItems /\ "no-timeout" # Last
        /\ "test-started" # Last
    BY DEF OwnItems, Last
  <1> QED
    BY <1>1, <1>4, <1>6, <1>7, <1>8

\* The verdicts of an item that has a result, and the item that has none.
LEMMA VerdictIs ==
    ASSUME NEW list \in Lists, NEW k \in Items \cup OwnItems
    PROVE  /\ Verdict(list, k) = "SUCCESS" <=> list[k] = "pass"
           /\ list[k] = "fail" =>
                 Verdict(list, k) = IF k \in expected THEN "EXPECTED_FAILURE" ELSE "FAILURE"
           /\ list[k] = "none" /\ k \notin ExpectedSkips => Verdict(list, k) = "SKIPPED"
  <1>1. list[k] \in {"none", "pass", "fail"}
    BY DEF Lists, Results
  <1> QED
    BY <1>1 DEF Verdict

\* With its last item open a list has an unexpected failure, so that the number
\* of successes is that of the items that passed.
LEMMA SuccessesWhenOpen ==
    ASSUME NEW list \in Lists, list[Last] = "none"
    PROVE  SuccessesOf(list) = Cardinality({k \in Items \cup OwnItems : list[k] = "pass"})
  <1>1. DOMAIN list = Items \cup OwnItems /\ Last \in Items \cup OwnItems
    BY ItemsFinite DEF Lists
  <1>2. ~NoUnexpectedFailures(list)
    <2>1. Verdict(list, Last) = "SKIPPED"
      BY <1>1, ItemsFinite, VerdictIs
    <2> QED
      BY <1>1, <2>1 DEF NoUnexpectedFailures
  <1>3. {k \in DOMAIN list : Verdict(list, k) = "SUCCESS"}
            = {k \in Items \cup OwnItems : list[k] = "pass"}
    BY <1>1, VerdictIs
  <1>4. Cardinality({k \in Items \cup OwnItems : list[k] = "pass"}) \in Nat
    BY ItemsFinite, FS_Subset, FS_CardinalityType
  <1> QED
    BY <1>2, <1>3, <1>4 DEF SuccessesOf

LEMMA SuccessesGrow ==
    ASSUME NEW list \in Lists, NEW new \in Lists, list[Last] = "none", Grows(list, new)
    PROVE  /\ SuccessesOf(list) \in Nat /\ SuccessesOf(new)' \in Nat
           /\ SuccessesOf(list) <= SuccessesOf(new)'
  <1> DEFINE passed == {k \in Items \cup OwnItems : list[k] = "pass"}
             more == {k \in Items \cup OwnItems : new[k] = "pass"}
  <1>1. passed \subseteq more
    BY DEF Grows, Lists
  <1>2. IsFiniteSet(more) /\ IsFiniteSet(passed)
    BY ItemsFinite, FS_Subset
  <1>3. /\ Cardinality(passed) <= Cardinality(more)
        /\ Cardinality(passed) \in Nat /\ Cardinality(more) \in Nat
    BY <1>1, <1>2, FS_Subset, FS_CardinalityType
  <1>4. SuccessesOf(list) = Cardinality(passed)
    BY SuccessesWhenOpen
  <1>5. SuccessesOf(new)' \in Nat /\ Cardinality(more) <= SuccessesOf(new)'
    <2>1. DOMAIN new = Items \cup OwnItems
      BY DEF Lists
    <2>2. {k \in DOMAIN new : Verdict(new, k)' = "SUCCESS"} = more
      BY <2>1 DEF Lists, Results, Verdict
    <2> HIDE DEF more
    <2> QED
      BY <1>3, <2>2 DEF SuccessesOf
  <1> HIDE DEF passed, more
  <1> QED
    BY <1>3, <1>4, <1>5


LEMMA FirstLists ==
    ASSUME NEW lists \in Seq(Lists), NEW i \in 1..Len(lists)
    PROVE  /\ SubSeq(lists, 1, i) \in Seq(Lists)
           /\ Len(SubSeq(lists, 1, i)) = i
           /\ \A j \in 1..i : SubSeq(lists, 1, i)[j] = lists[j] /\ j \in 1..Len(lists)
  <1>1. /\ Len(lists) \in Nat /\ i \in Nat /\ 1 <= i
        /\ \A j \in 1..i : j \in 1..Len(lists) /\ 1 + j - 1 = j
        /\ \A j \in 1..i : lists[j] \in Lists
        /\ i - 1 + 1 = i
    BY LenProperties, ElementOfSeq
  <1>2. SubSeq(lists, 1, i) = [j \in 1..i |-> lists[j]]
    BY <1>1
  <1>3. SubSeq(lists, 1, i) \in [1..i -> Lists]
    BY <1>1, <1>2
  <1> DEFINE part == SubSeq(lists, 1, i)
  <1>4. part \in Seq(Lists) /\ Len(part) = i
    <2> HIDE DEF part
    <2>1. part \in [1..i -> Lists]
      BY <1>3 DEF part
    <2> QED
      BY <1>1, <2>1, SeqDef, LenProperties
  <1> QED
    BY <1>1, <1>2, <1>4

LEMMA PercentageGrows ==
    ASSUME NEW i, checklists \in Seq(Lists), checklists' \in Seq(Lists),
           i \in 1..Len(checklists), i \in 1..Len(checklists'),
           \A j \in 1..i : checklists[j][Last] = "none" /\ Grows(checklists[j], checklists'[j])
    PROVE  /\ Percentage(SubSeq(checklists, 1, i)) \in Int
           /\ Percentage(SubSeq(checklists, 1, i))' \in Int
           /\ Percentage(SubSeq(checklists, 1, i)) <= Percentage(SubSeq(checklists, 1, i))'
  <1> DEFINE f == [j \in 1..i |-> SuccessesOf(checklists[j])]
             g == [j \in 1..i |-> SuccessesOf(checklists[j])']
  <1>0. i \in Nat /\ i # 0
    OBVIOUS
  <1>1. /\ SubSeq(checklists, 1, i) \in Seq(Lists)
        /\ Len(SubSeq(checklists, 1, i)) = i
        /\ DOMAIN SubSeq(checklists, 1, i) = 1..i
        /\ \A j \in 1..i : /\ SubSeq(checklists, 1, i)[j] = checklists[j]
                           /\ checklists[j] \in Lists
    BY FirstLists, LenProperties, ElementOfSeq
  <1>2. /\ SubSeq(checklists', 1, i) \in Seq(Lists)
        /\ Len(SubSeq(checklists', 1, i)) = i
        /\ DOMAIN SubSeq(checklists', 1, i) = 1..i
        /\ \A j \in 1..i : /\ SubSeq(checklists', 1, i)[j] = checklists'[j]
                           /\ checklists'[j] \in Lists
    BY FirstLists, LenProperties, ElementOfSeq
  <1>3. ASSUME NEW j \in 1..i
        PROVE  f[j] \in Nat /\ g[j] \in Nat /\ f[j] <= g[j]
    <2>1. PICK list \in Lists : list = checklists[j]
      BY <1>1
    <2>2. PICK new \in Lists : new = checklists'[j]
      BY <1>2
    <2>3. /\ SuccessesOf(list) \in Nat /\ SuccessesOf(new)' \in Nat
          /\ SuccessesOf(list) <= SuccessesOf(new)'
      BY <2>1, <2>2, SuccessesGrow
    <2>4. g[j] = SuccessesOf(new)'
      BY <2>2 DEF SuccessesOf, NoUnexpectedFailures, Verdict
    <2> QED
      BY <2>1, <2>3, <2>4
  <1>4. Percentage(SubSeq(checklists, 1, i))
            = (100 * Total(f)) \div (i * Cardinality(Possible))
    <2>1. SubSeq(checklists, 1, i) # <<>>
      BY <1>0, <1>1
    <2>2. [j \in DOMAIN SubSeq(checklists, 1, i) |-> SuccessesOf(SubSeq(checklists, 1, i)[j])] = f
      BY <1>1
    <2> QED
      BY <1>1, <2>1, <2>2 DEF Percentage
  <1>5. Percentage(SubSeq(checklists, 1, i))'
            = (100 * Total(g)) \div (i * Cardinality(Possible))
    <2>1. SubSeq(checklists', 1, i) # <<>>
      BY <1>0, <1>2
    <2>2. \A j \in 1..i : SuccessesOf(SubSeq(checklists, 1, i)[j])' = SuccessesOf(checklists[j])'
      BY <1>2 DEF SuccessesOf, NoUnexpectedFailures, Verdict
    <2>3. [j \in DOMAIN SubSeq(checklists, 1, i) |->
              SuccessesOf(SubSeq(checklists, 1, i)[j])]' = g
      BY <1>2, <2>2
    <2> QED
      BY <1>2, <2>1, <2>3 DEF Percentage
  <1>6. f \in [1..i -> Nat] /\ g \in [1..i -> Nat]
    BY <1>3
  <1> HIDE DEF f, g
  <1>7. f \in Seq(Nat) /\ Len(f) = i
    BY <1>0, <1>6, SeqDef, LenProperties
  <1>8. g \in Seq(Nat) /\ Len(g) = i
    BY <1>0, <1>6, SeqDef, LenProperties
  <1>9. Total(f) \in Nat /\ Total(g) \in Nat /\ Total(f) <= Total(g)
    BY <1>3, <1>7, <1>8, TotalGrows
  <1> DEFINE m == i * Cardinality(Possible)
             a == 100 * Total(f)
             b == 100 * Total(g)
  <1>10. m \in Nat \ {0}
    BY <1>0, ItemsFinite
  <1>11. a \in Nat /\ b \in Nat /\ a <= b
    BY <1>9
  <1>12. /\ Percentage(SubSeq(checklists, 1, i)) = a \div m
         /\ Percentage(SubSeq(checklists, 1, i))' = b \div m
    BY <1>4, <1>5
  <1> HIDE DEF m, a, b
  <1>13. a \div m <= b \div m /\ a \div m \in Int /\ b \div m \in Int
    BY <1>10, <1>11, QuotientGrows
  <1> QED
    BY <1>12, <1>13

-----------------------------------------------------------------------------
(* The steps of the runner.                                                *)

LEMMA RecordedGrows ==
    ASSUME NEW list \in Lists, NEW k \in Items \cup OwnItems, NEW ok
    PROVE  /\ Grows(list, Recorded(list, k, ok))
           /\ k # Last => Recorded(list, k, ok)[Last] = list[Last]
           /\ \A q \in Items \cup OwnItems :
                 Recorded(list, k, ok)[q] = "fail" =>
                    list[q] = "fail" \/ (q = k /\ list[k] = "none" /\ ~ok)
  <1>1. Last \in Items \cup OwnItems
    BY ItemsFinite
  <1> QED
    BY <1>1 DEF Recorded, Grows, Lists, Result

LEMMA SameGrows == \A list : Grows(list, list)
BY DEF Grows

\* What validateChecklistItem() does to all lists.
LEMMA ValidateGrows ==
    ASSUME VInv, NEW k \in Items \cup OwnItems, NEW ok \in BOOLEAN,
           ValidateChecklistItem(k, ok)
    PROVE  /\ DOMAIN checklists' = DOMAIN checklists
           /\ \A i \in DOMAIN checklists : Grows(checklists[i], checklists'[i])
           /\ k # Last =>
                 /\ base'[Last] = base[Last]
                 /\ \A i \in DOMAIN checklists : checklists'[i][Last] = checklists[i][Last]
           /\ ExpectedBook => ExpectedBook'
           /\ k \notin ExpectedFailures => expected' = expected
  <1>0. /\ base \in Lists /\ checklists \in Seq(Lists) /\ Iteration \in Nat
        /\ DOMAIN checklists = 1..Iteration
        /\ \A i \in DOMAIN checklists : checklists[i] \in Lists
    BY IterationType DEF VInv, Types
  <1> DEFINE list == IF Iteration = 0 THEN base ELSE checklists[Iteration]
             new == Recorded(list, k, ok)
  <1>1. list \in Lists
    BY <1>0
  <1>2. /\ Grows(list, new)
        /\ k # Last => new[Last] = list[Last]
        /\ \A q \in Items \cup OwnItems :
              new[q] = "fail" => list[q] = "fail" \/ (q = k /\ list[k] = "none" /\ ~ok)
    BY <1>1, RecordedGrows
  <1>3. expected' = IF list[k] = "none" /\ ~ok /\ k \in ExpectedFailures
                    THEN expected \cup {k} ELSE expected
    BY DEF ValidateChecklistItem
  <1>4. ASSUME ExpectedBook
        PROVE  /\ expected' \subseteq ExpectedFailures
               /\ ExpectedIn(base)' \/ Iteration = 0
               /\ \A q \in ExpectedFailures : new[q] = "fail" => q \in expected'
               /\ \A q \in ExpectedFailures : q \in expected => q \in expected'
    <2>1. expected \subseteq ExpectedFailures /\ ExpectedIn(list)
      BY <1>0, <1>4 DEF ExpectedBook
    <2>2. \A q \in ExpectedFailures : q \in Items \cup OwnItems
      BY ItemsFinite
    <2>3. Iteration # 0 => base' = base
      BY DEF ValidateChecklistItem
    <2> QED
      BY <1>2, <1>3, <1>4, <2>1, <2>2, <2>3 DEF ExpectedBook, ExpectedIn
  <1>5. CASE Iteration = 0
    <2>1. base' = new /\ checklists' = checklists /\ DOMAIN checklists = {} /\ list = base
      BY <1>0, <1>5 DEF ValidateChecklistItem
    <2> HIDE DEF new, list
    <2> QED
      BY <1>2, <1>3, <1>4, <2>1 DEF ExpectedBook, ExpectedIn
  <1>6. CASE Iteration # 0
    <2>1. /\ base' = base /\ checklists' = [checklists EXCEPT ![Iteration] = new]
          /\ list = checklists[Iteration] /\ Iteration \in DOMAIN checklists
      BY <1>0, <1>6 DEF ValidateChecklistItem
    <2> HIDE DEF new, list
    <2>2. /\ DOMAIN checklists' = DOMAIN checklists
          /\ checklists'[Iteration] = new
          /\ \A i \in DOMAIN checklists : i # Iteration => checklists'[i] = checklists[i]
      BY <1>0, <2>1
    <2>3. \A i \in DOMAIN checklists : Grows(checklists[i], checklists'[i])
      BY <1>2, <2>1, <2>2, SameGrows
    <2>4. k # Last => /\ base'[Last] = base[Last]
                      /\ \A i \in DOMAIN checklists :
                            checklists'[i][Last] = checklists[i][Last]
      BY <1>2, <2>1, <2>2
    <2>5. ExpectedBook => ExpectedBook'
      <3> SUFFICES ASSUME ExpectedBook
                   PROVE  ExpectedBook'
        OBVIOUS
      <3>1. ExpectedIn(base)'
        BY <1>4, <1>6
      <3>2. ASSUME NEW i \in DOMAIN checklists'
            PROVE  ExpectedIn(checklists[i])'
        BY <1>4, <2>2 DEF ExpectedBook, ExpectedIn
      <3> QED
        BY <1>4, <3>1, <3>2 DEF ExpectedBook
    <2> QED
      BY <1>3, <2>2, <2>3, <2>4, <2>5
  <1> QED
    BY <1>5, <1>6

\* Stored percentages stay below those of the lists, as long as lists grow.
LEMMA PercentagesStay ==
    ASSUME VInv, VInv', OpenBook, PercentageBook, ~standalone, phase # "over",
           \A i \in DOMAIN checklists :
               i \in DOMAIN checklists' /\ Grows(checklists[i], checklists'[i])
    PROVE  \A i \in DOMAIN percentages :
               percentages[i] <= Percentage(SubSeq(checklists, 1, i))'
  <1>0. /\ checklists \in Seq(Lists) /\ DOMAIN checklists = 1..Len(checklists)
        /\ checklists' \in Seq(Lists) /\ DOMAIN checklists' = 1..Len(checklists')
        /\ Len(checklists) \in Nat
        /\ percentages \in Seq(Int) /\ DOMAIN percentages = 1..Len(percentages)
        /\ Len(percentages) \in Nat /\ Len(percentages) <= Len(checklists)
    BY LenProperties DEF VInv, Types, PercentageBook, Iteration
  <1> SUFFICES ASSUME NEW i \in DOMAIN percentages
               PROVE  percentages[i] <= Percentage(SubSeq(checklists, 1, i))'
    OBVIOUS
  <1>1. i \in 1..Len(checklists) /\ i \in 1..Len(checklists') /\ percentages[i] \in Int
    BY <1>0, ElementOfSeq
  <1>2. percentages[i] <= Percentage(SubSeq(checklists, 1, i))
    BY DEF PercentageBook
  <1>3. \A j \in 1..i : /\ j \in DOMAIN checklists
                        /\ checklists[j][Last] = "none"
                        /\ Grows(checklists[j], checklists'[j])
    BY <1>0, <1>1 DEF OpenBook
  <1>4. /\ Percentage(SubSeq(checklists, 1, i)) \in Int
        /\ Percentage(SubSeq(checklists, 1, i))' \in Int
        /\ Percentage(SubSeq(checklists, 1, i)) <= Percentage(SubSeq(checklists, 1, i))'
    BY <1>0, <1>1, <1>3, PercentageGrows
  <1> QED
    BY <1>1, <1>2, <1>4


LEMMA InitPInv == Init => PInv
  <1> SUFFICES ASSUME Init
               PROVE  PInv
    OBVIOUS
  <1>1. /\ checklists = <<>> /\ percentages = <<>> /\ expected = {} /\ phase = "setup"
        /\ base = [k \in Items \cup OwnItems |-> "none"]
    BY DEF Init, Nothing
  <1>2. DOMAIN checklists = {} /\ DOMAIN percentages = {} /\ Iteration = 0 /\ Len(percentages) = 0
        /\ percentages \in Seq(Int)
    BY <1>1 DEF Iteration
  <1>3. ExpectedBook
    <2>1. ExpectedFailures \subseteq Items
      BY ItemsFinite
    <2> QED
      BY <1>1, <1>2, <2>1 DEF ExpectedBook, ExpectedIn
  <1>4. OpenBook
    BY <1>1, <1>2, ItemsFinite DEF OpenBook
  <1>5. PercentageBook
    BY <1>1, <1>2 DEF PercentageBook
  <1> QED
    BY <1>3, <1>4, <1>5 DEF PInv

\* Nothing of the runner changes in a standalone run.
LEMMA StandaloneKeepsPInv ==
    ASSUME VInv, PInv, standalone, UNCHANGED <<standalone, base, checklists, expected, percentages>>
    PROVE  PInv'
  <1>1. checklists = <<>>
    BY DEF VInv
  <1>2. Iteration = 0 /\ DOMAIN percentages = {}
    <2>1. percentages \in Seq(Int) /\ Iteration = 0 /\ Iteration = Len(percentages)
      BY <1>1 DEF PInv, PercentageBook, Iteration
    <2> QED
      BY <2>1, LenProperties
  <1>3. ExpectedBook'
    BY DEF PInv, ExpectedBook, ExpectedIn
  <1>4. PercentageBook'
    BY <1>2 DEF PInv, PercentageBook, Iteration
  <1> QED
    BY <1>3, <1>4 DEF PInv, OpenBook

\* The steps of a runner's test.
LEMMA StartKeepsPInv ==
    ASSUME VInv, VInv', PInv, Start
    PROVE  /\ PInv'
           /\ \A i \in DOMAIN checklists : checklists'[i] = checklists[i]
           /\ expected' = expected
  <1> DEFINE new == Recorded(base, "test-started", TRUE)
  <1>1. /\ ~standalone /\ standalone' = standalone
        /\ phase \in {"setup", "stopped"} /\ phase' = "running"
        /\ checklists' = Append(checklists, new)
        /\ UNCHANGED <<base, expected, percentages>>
    BY DEF Start
  <1>2. "test-started" \in Items \cup OwnItems /\ base \in Lists
    BY DEF OwnItems, VInv, Types
  <1>3. /\ new \in Lists
        /\ new[Last] = base[Last]
        /\ \A q \in Items \cup OwnItems : new[q] = "fail" => base[q] = "fail"
    <2>1. new \in Lists
      BY <1>2, RecordedType
    <2>2. "test-started" # Last
      BY ItemsFinite
    <2>3. /\ "test-started" # Last => new[Last] = base[Last]
          /\ \A q \in Items \cup OwnItems :
                new[q] = "fail" =>
                    base[q] = "fail" \/ (q = "test-started" /\ base["test-started"] = "none" /\ ~TRUE)
      BY <1>2, RecordedGrows
    <2> HIDE DEF new
    <2> QED
      BY <2>1, <2>2, <2>3
  <1> HIDE DEF new
  <1>4. /\ checklists \in Seq(Lists) /\ Iteration \in Nat /\ Iteration' = Iteration + 1
        /\ DOMAIN checklists = 1..Iteration /\ DOMAIN checklists' = 1..(Iteration + 1)
        /\ \A i \in 1..Iteration : checklists'[i] = checklists[i]
        /\ checklists'[Iteration + 1] = new
    BY <1>1, <1>3, AppendProperties, LenProperties DEF VInv, Types, Iteration
  <1>5. \A i \in DOMAIN checklists' : i \in DOMAIN checklists \/ i = Iteration + 1
    BY <1>4
  <1>6. ExpectedBook'
    <2>1. ExpectedIn(new)
      BY <1>3, ItemsFinite DEF PInv, ExpectedBook, ExpectedIn
    <2> QED
      BY <1>1, <1>4, <1>5, <2>1 DEF PInv, ExpectedBook, ExpectedIn
  <1>7. OpenBook'
    BY <1>1, <1>3, <1>4, <1>5 DEF PInv, OpenBook
  <1>8. PercentageBook'
    <2>1. \A i \in DOMAIN checklists : i \in DOMAIN checklists' /\ Grows(checklists[i], checklists'[i])
      BY <1>4, SameGrows
    <2>2. \A i \in DOMAIN percentages :
              percentages[i] <= Percentage(SubSeq(checklists, 1, i))'
      BY <1>1, <2>1, PercentagesStay DEF PInv
    <2>3. Iteration' = Len(percentages) + 1
      BY <1>1, <1>4 DEF PInv, PercentageBook
    <2> QED
      BY <1>1, <2>2, <2>3 DEF PInv, PercentageBook
  <1> QED
    BY <1>1, <1>4, <1>6, <1>7, <1>8 DEF PInv

LEMMA StopKeepsPInv ==
    ASSUME VInv, VInv', PInv, Stop
    PROVE  PInv'
  <1>1. PICK ok \in BOOLEAN : ValidateChecklistItem("no-timeout", ok)
    BY DEF Stop
  <1>2. /\ ~standalone /\ standalone' = standalone /\ phase = "running" /\ phase' = "stopped"
        /\ percentages' = Append(percentages, Percentage(checklists'))
    BY DEF Stop
  <1>3. "no-timeout" \in Items \cup OwnItems
    BY DEF OwnItems
  <1>4. /\ DOMAIN checklists' = DOMAIN checklists
        /\ \A i \in DOMAIN checklists : Grows(checklists[i], checklists'[i])
        /\ base'[Last] = base[Last]
        /\ \A i \in DOMAIN checklists : checklists'[i][Last] = checklists[i][Last]
        /\ ExpectedBook'
        /\ expected' = expected
    BY <1>1, <1>3, ValidateGrows, ItemsFinite DEF PInv
  <1>5. OpenBook'
    BY <1>2, <1>4 DEF PInv, OpenBook
  <1>6. /\ checklists \in Seq(Lists) /\ checklists' \in Seq(Lists)
        /\ Iteration \in Nat /\ Iteration' = Iteration
        /\ DOMAIN checklists' = 1..Iteration
    BY <1>4, LenProperties DEF VInv, Types, Iteration
  <1>7. /\ percentages \in Seq(Int) /\ Len(percentages) \in Nat
        /\ DOMAIN percentages = 1..Len(percentages)
        /\ Iteration = Len(percentages) + 1
    BY <1>2, LenProperties DEF PInv, PercentageBook
  <1> DEFINE now == Percentage(checklists')
  <1>8. SubSeq(checklists', 1, Iteration) = checklists'
    <2>1. Iteration \in 1..Len(checklists')
      BY <1>6, <1>7, LenProperties DEF Iteration
    <2>2. /\ SubSeq(checklists', 1, Iteration) \in Seq(Lists)
          /\ Len(SubSeq(checklists', 1, Iteration)) = Iteration
          /\ \A j \in 1..Iteration : SubSeq(checklists', 1, Iteration)[j] = checklists'[j]
      BY <1>6, <2>1, FirstLists
    <2>3. Len(checklists') = Iteration
      BY <1>6 DEF Iteration
    <2> QED
      BY <1>6, <2>2, <2>3, SeqEqual
  <1>9. now = Percentage(SubSeq(checklists, 1, Iteration))' /\ now \in Int
    <2>1. Percentage(SubSeq(checklists, 1, Iteration))' \in Int
      <3>1. /\ Iteration \in 1..Len(checklists) /\ Iteration \in 1..Len(checklists')
            /\ \A j \in 1..Iteration :
                  /\ j \in DOMAIN checklists
                  /\ checklists[j][Last] = "none"
                  /\ Grows(checklists[j], checklists'[j])
        BY <1>2, <1>4, <1>6, <1>7, LenProperties DEF PInv, OpenBook, Iteration
      <3>2. \A i : i = Iteration => Percentage(SubSeq(checklists, 1, i))' \in Int
        BY <1>6, <3>1, PercentageGrows
      <3> QED
        BY <1>6, <3>2
    <2>2. now = Percentage(checklists)'
      BY <1>4 DEF Percentage, SuccessesOf, NoUnexpectedFailures, Verdict
    <2> QED
      BY <1>6, <1>8, <2>1, <2>2
  <1> HIDE DEF now
  <1>10. /\ percentages' \in Seq(Int) /\ Len(percentages') = Iteration
         /\ \A i \in DOMAIN percentages : percentages'[i] = percentages[i]
         /\ percentages'[Iteration] = now
         /\ \A i \in DOMAIN percentages' : i \in DOMAIN percentages \/ i = Iteration
    <2>1. percentages' = Append(percentages, now)
      BY <1>2 DEF now
    <2>2. /\ percentages' \in Seq(Int) /\ Len(percentages') = Len(percentages) + 1
          /\ \A i \in 1..Len(percentages) : percentages'[i] = percentages[i]
          /\ percentages'[Len(percentages) + 1] = now
      BY <1>7, <1>9, <2>1, AppendProperties
    <2>3. DOMAIN percentages' = 1..(Len(percentages) + 1)
      BY <2>2, LenProperties
    <2> QED
      BY <1>7, <2>2, <2>3
  <1>11. \A i \in DOMAIN percentages :
             percentages[i] <= Percentage(SubSeq(checklists, 1, i))'
    BY <1>2, <1>4, PercentagesStay DEF PInv
  <1>12. \A i \in DOMAIN percentages' :
             percentages'[i] <= Percentage(SubSeq(checklists, 1, i))'
    <2> TAKE i \in DOMAIN percentages'
    <2>1. CASE i \in DOMAIN percentages
      BY <1>10, <1>11, <2>1
    <2>2. CASE i = Iteration
      <3>1. \A j : j = Iteration => Percentage(SubSeq(checklists, 1, j))' = now
        BY <1>6, <1>9 DEF Percentage, SuccessesOf, NoUnexpectedFailures, Verdict
      <3>2. Percentage(SubSeq(checklists, 1, i))' = now /\ percentages'[i] = now
        BY <1>10, <2>2, <3>1
      <3>3. now <= now
        BY <1>9
      <3> QED
        BY <3>2, <3>3
    <2> QED
      BY <1>10, <2>1, <2>2
  <1>13. PercentageBook'
    BY <1>2, <1>6, <1>10, <1>12 DEF PercentageBook
  <1> QED
    BY <1>4, <1>5, <1>13 DEF PInv

\* tearDown() and a report.
LEMMA ValidateKeepsPInv ==
    ASSUME VInv, VInv', PInv, NEW k \in Items \cup OwnItems, NEW ok \in BOOLEAN,
           ValidateChecklistItem(k, ok), ~standalone, phase # "over",
           UNCHANGED <<standalone, percentages>>,
           \/ k = Last /\ phase # "running" /\ phase' = "over"
           \/ k # Last /\ phase' = phase
    PROVE  PInv'
  <1>1. /\ DOMAIN checklists' = DOMAIN checklists
        /\ \A i \in DOMAIN checklists : Grows(checklists[i], checklists'[i])
        /\ k # Last =>
              /\ base'[Last] = base[Last]
              /\ \A i \in DOMAIN checklists : checklists'[i][Last] = checklists[i][Last]
        /\ ExpectedBook'
    BY ValidateGrows DEF PInv
  <1>2. OpenBook'
    BY <1>1 DEF PInv, OpenBook
  <1>3. Iteration' = Iteration
    BY <1>1, LenProperties DEF VInv, Types, Iteration
  <1>4. \A i \in DOMAIN percentages :
            percentages[i] <= Percentage(SubSeq(checklists, 1, i))'
    BY <1>1, PercentagesStay DEF PInv
  <1>5. PercentageBook'
    BY <1>3, <1>4 DEF PInv, PercentageBook
  <1> QED
    BY <1>1, <1>2, <1>5 DEF PInv

\* Every step, and what it does to the lists.
LEMMA NextKeepsPInv ==
    ASSUME VInv, VInv', PInv, [Next]_vars
    PROVE  /\ PInv'
           /\ \A i \in DOMAIN checklists : Grows(checklists[i], checklists'[i])
           /\ \A i \in DOMAIN checklists : i \in DOMAIN checklists'
  <1>1. CASE /\ UNCHANGED <<standalone, base, checklists, expected, percentages>>
             /\ standalone \/ UNCHANGED phase
    <2>1. \A i \in DOMAIN checklists : Grows(checklists[i], checklists'[i])
      BY <1>1, SameGrows
    <2>2. CASE standalone
      BY <1>1, <2>1, <2>2, StandaloneKeepsPInv
    <2>3. CASE ~standalone
      <3>0. UNCHANGED <<standalone, phase, base, checklists, expected, percentages>>
        BY <1>1, <2>3
      <3>1. ExpectedBook' /\ OpenBook'
        BY <3>0 DEF PInv, ExpectedBook, ExpectedIn, OpenBook
      <3>2. \A i : Percentage(SubSeq(checklists, 1, i))' = Percentage(SubSeq(checklists, 1, i))
        BY <3>0 DEF Percentage, SuccessesOf, NoUnexpectedFailures, Verdict
      <3>3. Iteration' = Iteration
        BY <3>0 DEF Iteration
      <3>4. PercentageBook'
        BY <3>0, <3>2, <3>3 DEF PInv, PercentageBook
      <3> QED
        BY <1>1, <2>1, <3>1, <3>4 DEF PInv
    <2> QED
      BY <2>2, <2>3
  <1>2. CASE Start
    <2>1. PInv' /\ \A i \in DOMAIN checklists : checklists'[i] = checklists[i]
      BY <1>2, StartKeepsPInv
    <2>2. \A i \in DOMAIN checklists : i \in DOMAIN checklists'
      <3>1. checklists \in Seq(Lists) /\ checklists' \in Seq(Lists)
            /\ Len(checklists') = Len(checklists) + 1
        <4>1. Recorded(base, "test-started", TRUE) \in Lists
          BY RecordedType DEF OwnItems, VInv, Types
        <4> QED
          BY <1>2, <4>1, AppendProperties DEF Start, VInv, Types
      <3> QED
        BY <3>1, LenProperties
    <2> QED
      BY <2>1, <2>2, SameGrows
  <1>3. CASE Stop
    <2>1. PInv'
      BY <1>3, StopKeepsPInv
    <2>2. PICK ok \in BOOLEAN : ValidateChecklistItem("no-timeout", ok)
      BY <1>3 DEF Stop
    <2>3. "no-timeout" \in Items \cup OwnItems
      BY DEF OwnItems
    <2> QED
      BY <2>1, <2>2, <2>3, ValidateGrows
  <1>4. CASE TearDown
    <2>1. PICK ok \in BOOLEAN : ValidateChecklistItem(Last, ok)
      BY <1>4 DEF TearDown, Last
    <2>2. /\ Last \in Items \cup OwnItems /\ ~standalone /\ phase # "over" /\ phase # "running"
          /\ phase' = "over" /\ UNCHANGED <<standalone, percentages>>
      BY <1>4, ItemsFinite DEF TearDown
    <2> QED
      BY <2>1, <2>2, ValidateKeepsPInv, ValidateGrows
  <1>5. CASE \E k \in Items, ok \in BOOLEAN : Report(k, ok)
    <2>1. PICK k \in Items, ok \in BOOLEAN : Report(k, ok)
      BY <1>5
    <2>2. /\ phase # "over" /\ UNCHANGED <<standalone, phase, percentages>>
          /\ k \in Items \cup OwnItems /\ k # Last
      BY <2>1, ItemsFinite DEF Report
    <2>3. CASE Suppressed(k, ok) \/ standalone
      BY <1>1, <2>1, <2>2, <2>3 DEF Report
    <2>4. CASE ~(Suppressed(k, ok) \/ standalone)
      <3>1. ValidateChecklistItem(k, ok) /\ ~standalone
        BY <2>1, <2>4 DEF Report
      <3> QED
        BY <2>2, <3>1, ValidateKeepsPInv, ValidateGrows
    <2> QED
      BY <2>3, <2>4
  <1>6. CASE RunStandalone \/ EndStandalone \/ UNCHANGED vars
    BY <1>1, <1>6 DEF RunStandalone, EndStandalone, runner, vars
  <1> QED
    BY <1>2, <1>3, <1>4, <1>5, <1>6 DEF Next

\* A result that is there keeps its verdict.
LEMMA VerdictsKept ==
    ASSUME VInv, VInv', PInv, PInv',
           \A i \in DOMAIN checklists : i \in DOMAIN checklists' /\ Grows(checklists[i], checklists'[i]),
           NEW i \in DOMAIN checklists, NEW k \in Items \cup OwnItems, checklists[i][k] # "none"
    PROVE  Verdict(checklists[i], k)' = Verdict(checklists[i], k)
  <1>1. /\ checklists[i] \in Lists /\ checklists'[i] \in Lists
        /\ checklists'[i][k] = checklists[i][k]
    <2>1. \A j \in DOMAIN checklists : checklists[j] \in Lists
      BY IterationType DEF VInv
    <2>2. checklists'[i] \in Lists
      BY ElementOfSeq, LenProperties DEF VInv, Types
    <2> QED
      BY <2>1, <2>2 DEF Grows, Lists
  <1>2. checklists[i][k] \in {"pass", "fail"}
    BY <1>1 DEF Lists, Results
  <1>3. checklists[i][k] = "fail" =>
            (k \in expected <=> k \in ExpectedFailures) /\ (k \in expected' <=> k \in ExpectedFailures)
    BY <1>1 DEF PInv, ExpectedBook, ExpectedIn
  <1> QED
    BY <1>1, <1>2, <1>3 DEF Verdict

LEMMA AlwaysPInv == Spec => [](VInv /\ PInv)
  <1>1. Init => VInv /\ PInv
    BY InitVInv, InitPInv
  <1>2. VInv /\ PInv /\ [Next]_vars => VInv' /\ PInv'
    BY NextVInv, NextKeepsPInv
  <1> QED
    BY <1>1, <1>2, PTL DEF Spec

\* Whatever a program or the tear-down adds to the list of an iteration that
\* has been stopped, and whatever later iterations add to the expected failures,
\* no verdict changes and no percentage was stored too high (test.py 402-423,
\* 473-505, 608-682).
THEOREM PastVerdictsStayTheorem == Spec => PastVerdictsStay
  <1>1. VInv /\ PInv /\ [Next]_vars =>
            [\A i \in DOMAIN checklists, k \in Items \cup OwnItems :
                checklists[i][k] # "none" =>
                    Verdict(checklists[i], k)' = Verdict(checklists[i], k)]_vars
    BY NextVInv, NextKeepsPInv, VerdictsKept
  <1>2. PInv => \A i \in DOMAIN percentages :
                    percentages[i] <= Percentage(SubSeq(checklists, 1, i))
    BY DEF PInv, PercentageBook
  <1> QED
    BY <1>1, <1>2, AlwaysPInv, PTL DEF Spec, PastVerdictsStay
=============================================================================
