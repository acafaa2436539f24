--------------------------- MODULE DBMergeProofs ----------------------------
(***************************************************************************)
(* What a runner and a merge leave in the databases, for any number of     *)
(* runs, merges and kills, and any classes, names and clients.             *)
(*                                                                         *)
(* The argument: tables grow, and what is committed lags behind only in    *)
(* names and entries (Behind), so a kill takes nothing away that something *)
(* committed refers to.  A statement finds what it refers to in the        *)
(* tables, or it comes after the statement that writes it (Recording,      *)
(* Merging).  A row that was merged agrees with its original (CopyBook);   *)
(* it is the last row of the destination while its names are written, and  *)
(* no runner writes into it (Own).                                         *)
(***************************************************************************)
EXTENDS DBMerge, SequenceTheorems, FiniteSetTheorems, WellFoundedInduction, TLAPS

-----------------------------------------------------------------------------
(* The invariant.                                                          *)

\* The types of what the proofs meet.
RunnerOps == {"client", "startRun", "class", "started", "stopped", "finished",
              "monitorClass", "monitor", "endRun"}
MergeOps == {"mergeClient", "mergeRun", "mergeRunEnd", "mergeClasses", "mergeClass",
             "mergeTests", "mergeArguments", "mergeExtraInfo", "mergeParents", "mergeDone"}
Ops == RunnerOps \cup MergeOps
Args == Clients \cup Classes \cup Nat \cup [run : Nat, after : Nat]
Tasks == [op : Ops, db : DBs, arg : Args]
Copies == [old : Nat, new : Nat]

\* The tables, and that every id in them resolves.
Names == (UNION {Declares[c][k] : c \in Classes, k \in Kinds}) \cup Undeclared
Containers == [by : {"type"}, is : Classes] \cup {[by |-> "nothing"]}
Runs == [client : Nat, ended : BOOLEAN]
ClassRows ==
    {r \in [type : Classes, parent : {Root, NoClass}] : r.type = Root => r.parent = NoClass}
Tests == [testrun : Nat, type : Nat, parent : Nat, ismonitor : BOOLEAN, rated : BOOLEAN]
NameRows == [container : Containers, name : Names]
Entries == [kind : Kinds, test : Nat, name : Nat]
Tables ==
    [client : Seq(Clients), testrun : Seq(Runs), testclassinfo : Seq(ClassRows),
     test : Seq(Tests), names : [Kinds -> Seq(NameRows)], entries : SUBSET Entries]

\* A test has row 1 as its parent, or none; a monitor the row of its test, before.
ParentThere(row, i) == row.parent \in 0..i /\ (row.ismonitor \/ row.parent \in {0, 1})

Resolved(t) ==
    /\ \A i \in DOMAIN t.testrun : t.testrun[i].client \in DOMAIN t.client
    /\ \A i \in DOMAIN t.test : /\ t.test[i].testrun \in DOMAIN t.testrun
                                /\ t.test[i].type \in DOMAIN t.testclassinfo
                                /\ ParentThere(t.test[i], i)
    /\ \A e \in t.entries : e.test \in DOMAIN t.test /\ e.name \in DOMAIN t.names[e.kind]

Sound(t) == t \in Tables /\ Resolved(t)

\* Names of s are names of t, under the same ids.
NamesKept(s, t) ==
    \A k \in Kinds : \A i \in DOMAIN s.names[k] :
        i \in DOMAIN t.names[k] /\ t.names[k][i] = s.names[k][i]

\* What is committed, s, lacks names and entries of what is written, t.
Behind(s, t) ==
    /\ s.client = t.client /\ s.testrun = t.testrun
    /\ s.testclassinfo = t.testclassinfo /\ s.test = t.test
    /\ NamesKept(s, t)
    /\ s.entries \subseteq t.entries

\* A row that was merged, as long as there is one.
CopyBook(p) ==
    LET old == db[From].test[p.old]
        new == db[To].test[p.new]
    IN  /\ p.old \in DOMAIN db[From].test /\ p.new \in DOMAIN db[To].test
        /\ new.rated = old.rated /\ new.parent = old.parent
        /\ new.type = TypeID(db[To], TypeName(db[From], p.old))
        /\ db[To].client[db[To].testrun[new.testrun].client] = ClientOfRun(old.testrun)
        /\ \A k \in Kinds : NamesOf(db[To], k, p.new) \subseteq NamesOf(disk[From], k, p.old)

\* The last test of d is one that was recorded there and has not been merged.
Own(d) ==
    /\ Len(db[d].test) # 0
    /\ \A p \in copies : /\ d = From => p.old # Len(db[d].test)
                         /\ d = To => p.new # Len(db[d].test)

\* A runner: each of its statements finds what it refers to, or it comes after
\* the statement that writes that.
Earlier(i, op) == {todo[j].arg : j \in {n \in 1..(i - 1) : todo[n].op = op}}

RecordingTask(i) ==
    LET op == todo[i].op
        d == todo[i].db
        arg == todo[i].arg
    IN  /\ d = todo[1].db
        /\ \/ op \in {"client", "startRun", "endRun"} /\ arg \in Clients
           \/ op \in {"class", "started", "stopped", "finished"} /\ arg \in TestClasses
           \/ op \in {"monitorClass", "monitor"} /\ arg \in MonitorClasses \cup {Root}
        /\ op = "startRun" => ClientID(db[d], arg) # 0 \/ arg \in Earlier(i, "client")
        /\ op \in {"started", "monitor"} =>
              Len(db[d].testrun) # 0 \/ Earlier(i, "startRun") # {}
        /\ op = "started" => HasClass(db[d], arg) \/ arg \in Earlier(i, "class")
        /\ op = "monitor" => HasClass(db[d], arg) \/ arg \in Earlier(i, "monitorClass")
        /\ op \in {"stopped", "finished"} => Own(d) \/ Earlier(i, "started") # {}

Recording ==
    /\ todo # <<>> => todo[Len(todo)].op = "endRun"
    /\ \A i \in DOMAIN todo : RecordingTask(i)

\* A merge: the run it is at is a copy of that of the origin, and the runs that
\* follow have not been begun.
RunIs(r) ==
    LET n == Len(db[To].testrun)
    IN  n # 0 /\ db[To].client[db[To].testrun[n].client] = ClientOfRun(r)
ClassesThere(r) == \A c \in TestTypeUsed(r) : HasClass(db[To], c)

\* What may have to be done before.
Under(op) ==
    CASE op \in {"mergeClient", "mergeDone"} -> MergeOps
      [] op \in {"mergeClasses", "mergeClass"} -> {"mergeClass"}
      [] op = "mergeTests" -> {"mergeArguments", "mergeExtraInfo"}
      [] op = "mergeExtraInfo" -> {"mergeArguments"}
      [] OTHER -> {}
\* Statement s of a merge may come before t: of two classes the first is the
\* parent of the second.
Before(s, t) ==
    /\ s.op \in Under(t.op)
    /\ s.op = "mergeClass" /\ t.op = "mergeClass" => s.arg = Root /\ t.arg # Root

\* What a statement t of a merge finds.
MergeReady(t) ==
    /\ t.db = To /\ t.op \in MergeOps
    /\ t.op \in {"mergeClient", "mergeRun", "mergeRunEnd", "mergeClasses", "mergeParents"} =>
          t.arg \in DOMAIN db[From].testrun
    /\ t.op = "mergeRun" => ClientID(db[To], ClientOfRun(t.arg)) # 0
    /\ t.op \in {"mergeRunEnd", "mergeClasses"} => RunIs(t.arg)
    /\ t.op = "mergeClass" => t.arg \in Classes /\ ~HasClass(db[To], t.arg)
    /\ t.op = "mergeTests" =>
          /\ t.arg \in [run : DOMAIN db[From].testrun, after : Nat]
          /\ RunIs(t.arg.run) /\ ClassesThere(t.arg.run)
    /\ t.op = "mergeArguments" => [old |-> t.arg, new |-> Len(db[To].test)] \in copies

Merging ==
    /\ todo # <<>> => todo[Len(todo)].op = "mergeDone"
    /\ \A i \in DOMAIN todo : MergeReady(todo[i])
    /\ \A i \in DOMAIN todo : \A j \in 1..(i - 1) : Before(todo[j], todo[i])

\* What is not committed is in the database that is written to, and a row is
\* copied once.
DatabaseBook ==
    /\ db \in [DBs -> Tables] /\ disk \in [DBs -> Tables]
    /\ copies \in SUBSET Copies
    /\ \A d \in DBs : Sound(db[d]) /\ Sound(disk[d]) /\ Behind(disk[d], db[d])
    /\ \A p \in copies : CopyBook(p) /\ \A q \in copies : p.new = q.new => p = q
ProgramBook ==
    /\ todo \in Seq(Tasks)
    /\ \A d \in DBs : db[d] = disk[d] \/ (todo # <<>> /\ todo[1].db = d)
    /\ Recording \/ Merging

\* Tables u hold what t holds: of the rows of test only that with id own may
\* have changed, and only it and new rows have got entries.
Grows(t, u) ==
    /\ \A i \in DOMAIN t.client : i \in DOMAIN u.client /\ u.client[i] = t.client[i]
    /\ \A i \in DOMAIN t.testrun :
          i \in DOMAIN u.testrun /\ u.testrun[i].client = t.testrun[i].client
    /\ \A i \in DOMAIN t.testclassinfo :
          i \in DOMAIN u.testclassinfo /\ u.testclassinfo[i] = t.testclassinfo[i]
    /\ \A c : HasClass(t, c) => TypeID(u, c) = TypeID(t, c)
    /\ \A i \in DOMAIN t.test : i \in DOMAIN u.test

More(t, u, own) ==
    /\ Grows(t, u)
    /\ NamesKept(t, u)
    /\ t.entries \subseteq u.entries
    /\ \A i \in DOMAIN t.test : i # own => u.test[i] = t.test[i]
    /\ \A e \in u.entries : e \in t.entries \/ e.test \notin DOMAIN t.test \/ e.test = own

-----------------------------------------------------------------------------
(* Numbers, sets and sequences.                                            *)

\* Induction: a set of numbers that is not empty has a least element.
LEMMA LeastNumber ==
    ASSUME NEW T \in SUBSET Nat, T # {}
    PROVE  \E m \in T : \A k \in T : m <= k
  <1> DEFINE Less == {r \in Nat \X Nat : r[1] < r[2]}
  <1>1. IsWellFoundedOn(Less, Nat)
    BY NatLessThanWellFounded DEF OpToRel
  <1> HIDE DEF Less
  <1>2. PICK m \in T : \A k \in T : ~(<<k, m>> \in Less)
    BY <1>1, WFMin
  <1>3. ASSUME NEW k \in T
        PROVE  m <= k
    <2>1. m \in Nat /\ k \in Nat
      OBVIOUS
    <2>2. ~(k < m)
      BY <1>2, <2>1 DEF Less
    <2> QED
      BY <2>1, <2>2
  <1> QED
    BY <1>3

\* Min, as the community modules define it, is the least number of a set.
LEMMA LeastIs ==
    ASSUME NEW T \in SUBSET Nat, T # {}
    PROVE  Min(T) \in T
BY LeastNumber DEF Min

\* The last of some of n rows.
LEMMA LastRowIs ==
    ASSUME NEW n \in Nat, NEW found \in SUBSET (1..n)
    PROVE  /\ LastRow(found) \in Nat
           /\ found = {} <=> LastRow(found) = 0
           /\ found # {} => LastRow(found) \in found
  <1>1. CASE found = {}
    BY <1>1 DEF LastRow
  <1>2. CASE found # {}
    <2> DEFINE T == {n - x : x \in found}
    <2>0. \A x \in found : x \in Nat /\ x # 0 /\ n - x \in Nat
      OBVIOUS
    <2>1. T \in SUBSET Nat /\ T # {}
      <3>1. T # {}
        BY <1>2
      <3>2. \A y \in T : y \in Nat
        BY <2>0
      <3> QED
        BY <3>1, <3>2
    <2> HIDE DEF T
    <2>2. PICK m \in T : \A k \in T : m <= k
      BY <2>1, LeastNumber
    <2>3. PICK x \in found : m = n - x
      BY DEF T
    <2>4. \A y \in found : x >= y
      <3> TAKE y \in found
      <3>1. n - y \in T
        BY DEF T
      <3>2. n - x <= n - y /\ x \in Nat /\ y \in Nat
        BY <2>2, <2>3, <3>1
      <3> QED
        BY <3>2
    <2>5. Max(found) \in found
      BY <2>4 DEF Max
    <2>6. LastRow(found) = Max(found)
      BY <1>2 DEF LastRow
    <2> QED
      BY <1>2, <2>0, <2>5, <2>6
  <1> QED
    BY <1>1, <1>2

\* The elements of a finite set, one after the other.
LEMMA SetToSeqIs ==
    ASSUME NEW S, IsFiniteSet(S)
    PROVE  SetToSeq(S) \in Seq(S)
  <1>1. Cardinality(S) \in Nat /\ ExistsBijection(1..Cardinality(S), S)
    BY FS_CardinalityType
  <1>2. \E f \in [1..Cardinality(S) -> S] : IsInjective(f)
    BY <1>1 DEF ExistsBijection, Bijection, Injection
  <1>3. SetToSeq(S) \in [1..Cardinality(S) -> S]
    BY <1>2 DEF SetToSeq
  <1> QED
    BY <1>1, <1>3, SeqDef

\* Names, each made into something.
LEMMA FiniteRows ==
    ASSUME NEW ns, IsFiniteSet(ns), NEW container
    PROVE  IsFiniteSet({[container |-> container, name |-> n] : n \in ns})
  <1> DEFINE T == {[container |-> container, name |-> n] : n \in ns}
             f == [n \in ns |-> [container |-> container, name |-> n]]
  <1>1. f \in Surjection(ns, T)
    BY DEF Surjection
  <1> HIDE DEF f, T
  <1>2. IsFiniteSet(T)
    BY <1>1, FS_Surjection
  <1> QED
    BY <1>2 DEF T

\* What is put before the rest of a sequence of tasks.
LEMMA PushIs ==
    ASSUME NEW P \in Seq(Tasks), NEW s \in Seq(Tasks), s # <<>>
    PROVE  /\ P \o Tail(s) \in Seq(Tasks)
           /\ Len(P) \in Nat /\ Len(s) \in Nat \ {0}
           /\ Len(P \o Tail(s)) = Len(P) + Len(s) - 1
           /\ \A j \in 1..Len(P) : (P \o Tail(s))[j] = P[j]
           /\ \A i \in 2..Len(s) : (P \o Tail(s))[Len(P) + i - 1] = s[i]
  <1>1. /\ Tail(s) \in Seq(Tasks) /\ Len(Tail(s)) = Len(s) - 1
        /\ \A i \in 1..Len(Tail(s)) : Tail(s)[i] = s[i + 1]
    BY HeadTailProperties
  <1>2. Len(P) \in Nat /\ Len(s) \in Nat \ {0}
    BY LenProperties, EmptySeq
  <1>3. /\ P \o Tail(s) \in Seq(Tasks)
        /\ Len(P \o Tail(s)) = Len(P) + Len(Tail(s))
        /\ \A i \in 1..(Len(P) + Len(Tail(s))) :
              (P \o Tail(s))[i] = IF i <= Len(P) THEN P[i] ELSE Tail(s)[i - Len(P)]
    BY <1>1, ConcatProperties
  <1>4. ASSUME NEW i \in 2..Len(s)
        PROVE  (P \o Tail(s))[Len(P) + i - 1] = s[i]
    <2>1. /\ Len(P) + i - 1 \in 1..(Len(P) + Len(Tail(s))) /\ ~(Len(P) + i - 1 <= Len(P))
          /\ Len(P) + i - 1 - Len(P) = i - 1
          /\ i - 1 \in 1..Len(Tail(s)) /\ i - 1 + 1 = i
      BY <1>1, <1>2
    <2> QED
      BY <1>1, <1>3, <2>1
  <1>5. \A j \in 1..Len(P) : (P \o Tail(s))[j] = P[j]
    BY <1>1, <1>2, <1>3
  <1> QED
    BY <1>1, <1>2, <1>3, <1>4, <1>5

-----------------------------------------------------------------------------
(* Queries.                                                                *)

\* The ids of the tables, and their rows.
LEMMA SeqRows ==
    ASSUME NEW t \in Tables
    PROVE  /\ Len(t.client) \in Nat /\ DOMAIN t.client = 1..Len(t.client)
           /\ Len(t.testrun) \in Nat /\ DOMAIN t.testrun = 1..Len(t.testrun)
           /\ Len(t.testclassinfo) \in Nat
           /\ DOMAIN t.testclassinfo = 1..Len(t.testclassinfo)
           /\ Len(t.test) \in Nat /\ DOMAIN t.test = 1..Len(t.test)
           /\ \A k \in Kinds : /\ Len(t.names[k]) \in Nat
                               /\ DOMAIN t.names[k] = 1..Len(t.names[k])
           /\ \A i \in DOMAIN t.client : t.client[i] \in Clients
           /\ \A i \in DOMAIN t.testrun : t.testrun[i] \in Runs
           /\ \A i \in DOMAIN t.testclassinfo : t.testclassinfo[i] \in ClassRows
           /\ \A i \in DOMAIN t.test : t.test[i] \in Tests
           /\ \A k \in Kinds : \A i \in DOMAIN t.names[k] : t.names[k][i] \in NameRows
  <1>1. /\ t.client \in Seq(Clients) /\ t.testrun \in Seq(Runs)
        /\ t.testclassinfo \in Seq(ClassRows) /\ t.test \in Seq(Tests)
        /\ \A k \in Kinds : t.names[k] \in Seq(NameRows)
    BY DEF Tables
  <1>2. \A k \in Kinds : /\ Len(t.names[k]) \in Nat
                         /\ DOMAIN t.names[k] = 1..Len(t.names[k])
                         /\ \A i \in DOMAIN t.names[k] : t.names[k][i] \in NameRows
    <2> TAKE k \in Kinds
    <2>1. t.names[k] \in Seq(NameRows)
      BY <1>1
    <2> QED
      BY <2>1, LenProperties, ElementOfSeq
  <1>3. /\ Len(t.client) \in Nat /\ DOMAIN t.client = 1..Len(t.client)
        /\ \A i \in DOMAIN t.client : t.client[i] \in Clients
    BY <1>1, LenProperties, ElementOfSeq
  <1>4. /\ Len(t.testrun) \in Nat /\ DOMAIN t.testrun = 1..Len(t.testrun)
        /\ \A i \in DOMAIN t.testrun : t.testrun[i] \in Runs
    BY <1>1, LenProperties, ElementOfSeq
  <1>5. /\ Len(t.testclassinfo) \in Nat /\ DOMAIN t.testclassinfo = 1..Len(t.testclassinfo)
        /\ \A i \in DOMAIN t.testclassinfo : t.testclassinfo[i] \in ClassRows
    BY <1>1, LenProperties, ElementOfSeq
  <1>6. /\ Len(t.test) \in Nat /\ DOMAIN t.test = 1..Len(t.test)
        /\ \A i \in DOMAIN t.test : t.test[i] \in Tests
    BY <1>1, LenProperties, ElementOfSeq
  <1> QED
    BY <1>2, <1>3, <1>4, <1>5, <1>6

\* The id of a client is that of a row, if there is one.
LEMMA ClientIDIs ==
    ASSUME NEW t \in Tables, NEW u
    PROVE  /\ ClientID(t, u) \in Nat
           /\ ClientID(t, u) # 0 => /\ ClientID(t, u) \in DOMAIN t.client
                                    /\ t.client[ClientID(t, u)] = u
           /\ (\E i \in DOMAIN t.client : t.client[i] = u) => ClientID(t, u) # 0
  <1> DEFINE found == {i \in DOMAIN t.client : t.client[i] = u}
  <1>1. Len(t.client) \in Nat /\ found \in SUBSET (1..Len(t.client))
    BY SeqRows
  <1>2. ClientID(t, u) = LastRow(found)
    BY DEF ClientID
  <1> HIDE DEF found
  <1>3. /\ LastRow(found) \in Nat
        /\ found = {} <=> LastRow(found) = 0
        /\ found # {} => LastRow(found) \in found
    BY <1>1, LastRowIs
  <1> QED
    BY <1>2, <1>3 DEF found

\* The id of a class is that of a row, if there is one.
LEMMA TypeIDIs ==
    ASSUME NEW t \in Tables, NEW c
    PROVE  /\ TypeID(t, c) \in Nat
           /\ HasClass(t, c) => /\ TypeID(t, c) \in DOMAIN t.testclassinfo
                                /\ t.testclassinfo[TypeID(t, c)].type = c
           /\ (\E i \in DOMAIN t.testclassinfo : t.testclassinfo[i].type = c) => HasClass(t, c)
  <1> DEFINE found == {i \in DOMAIN t.testclassinfo : t.testclassinfo[i].type = c}
  <1>1. Len(t.testclassinfo) \in Nat /\ found \in SUBSET (1..Len(t.testclassinfo))
    BY SeqRows
  <1>2. TypeID(t, c) = LastRow(found)
    BY DEF TypeID
  <1> HIDE DEF found
  <1>3. /\ LastRow(found) \in Nat
        /\ found = {} <=> LastRow(found) = 0
        /\ found # {} => LastRow(found) \in found
    BY <1>1, LastRowIs
  <1> QED
    BY <1>2, <1>3 DEF found, HasClass

\* The id of a name that is known is that of a row with this name.
LEMMA MappingIs ==
    ASSUME NEW t \in Tables, NEW k \in Kinds, NEW n \in Known(t, k)
    PROVE  /\ Mapping(t, k, n) \in DOMAIN t.names[k]
           /\ t.names[k][Mapping(t, k, n)].name = n
           /\ Mapping(t, k, n) \in Nat
  <1> DEFINE found == {i \in DOMAIN t.names[k] : t.names[k][i].name = n}
  <1>1. Len(t.names[k]) \in Nat /\ found \in SUBSET (1..Len(t.names[k]))
    BY SeqRows
  <1>2. Mapping(t, k, n) = LastRow(found)
    BY DEF Mapping
  <1>3. found # {}
    BY DEF Known, Range
  <1> HIDE DEF found
  <1>4. LastRow(found) \in found /\ LastRow(found) \in Nat
    BY <1>1, <1>3, LastRowIs
  <1> QED
    BY <1>2, <1>4 DEF found

\* The id of a class that is there is that in any tables with the same classes.
LEMMA SameTypeID ==
    ASSUME NEW t, NEW u, NEW c,
           {i \in DOMAIN t.testclassinfo : t.testclassinfo[i].type = c}
               = {i \in DOMAIN u.testclassinfo : u.testclassinfo[i].type = c}
    PROVE  TypeID(t, c) = TypeID(u, c)
BY DEF TypeID

\* Entries stay what they are when names are only added.
LEMMA FewerNames ==
    ASSUME NEW s, NEW t, NEW k \in Kinds, NEW i,
           \A e \in s.entries : e.kind = k /\ e.test = i =>
               e \in t.entries /\ s.names[k][e.name].name = t.names[k][e.name].name
    PROVE  NamesOf(s, k, i) \subseteq NamesOf(t, k, i)
  <1> SUFFICES ASSUME NEW n \in NamesOf(s, k, i)
               PROVE  n \in NamesOf(t, k, i)
    OBVIOUS
  <1>1. PICK e \in s.entries : e.kind = k /\ e.test = i /\ n = s.names[k][e.name].name
    BY DEF NamesOf
  <1> QED
    BY <1>1 DEF NamesOf

-----------------------------------------------------------------------------
(* Statements.                                                             *)

\* One field of the tables is replaced.
LEMMA SetClient ==
    ASSUME NEW t \in Tables, NEW x \in Seq(Clients)
    PROVE  LET w == [t EXCEPT !.client = x]
           IN  /\ w \in Tables
               /\ w.client = x /\ w.testrun = t.testrun /\ w.testclassinfo = t.testclassinfo
               /\ w.test = t.test /\ w.names = t.names /\ w.entries = t.entries
BY DEF Tables

LEMMA SetRuns ==
    ASSUME NEW t \in Tables, NEW x \in Seq(Runs)
    PROVE  LET w == [t EXCEPT !.testrun = x]
           IN  /\ w \in Tables
               /\ w.client = t.client /\ w.testrun = x /\ w.testclassinfo = t.testclassinfo
               /\ w.test = t.test /\ w.names = t.names /\ w.entries = t.entries
BY DEF Tables

LEMMA SetClasses ==
    ASSUME NEW t \in Tables, NEW x \in Seq(ClassRows)
    PROVE  LET w == [t EXCEPT !.testclassinfo = x]
           IN  /\ w \in Tables
               /\ w.client = t.client /\ w.testrun = t.testrun /\ w.testclassinfo = x
               /\ w.test = t.test /\ w.names = t.names /\ w.entries = t.entries
BY DEF Tables

LEMMA SetTests ==
    ASSUME NEW t \in Tables, NEW x \in Seq(Tests)
    PROVE  LET w == [t EXCEPT !.test = x]
           IN  /\ w \in Tables
               /\ w.client = t.client /\ w.testrun = t.testrun /\ w.testclassinfo = t.testclassinfo
               /\ w.test = x /\ w.names = t.names /\ w.entries = t.entries
BY DEF Tables

LEMMA SetNames ==
    ASSUME NEW t \in Tables, NEW x \in [Kinds -> Seq(NameRows)]
    PROVE  LET w == [t EXCEPT !.names = x]
           IN  /\ w \in Tables
               /\ w.client = t.client /\ w.testrun = t.testrun /\ w.testclassinfo = t.testclassinfo
               /\ w.test = t.test /\ w.names = x /\ w.entries = t.entries
BY DEF Tables

LEMMA SetEntries ==
    ASSUME NEW t \in Tables, NEW x \in SUBSET Entries
    PROVE  LET w == [t EXCEPT !.entries = x]
           IN  /\ w \in Tables
               /\ w.client = t.client /\ w.testrun = t.testrun /\ w.testclassinfo = t.testclassinfo
               /\ w.test = t.test /\ w.names = t.names /\ w.entries = x
BY DEF Tables

\* Two statements, one after the other.
LEMMA MoreTwice ==
    ASSUME NEW t, NEW u, NEW w, NEW own, More(t, u, own), More(u, w, own)
    PROVE  More(t, w, own)
  <1>1. Grows(t, w)
    BY DEF More, Grows, HasClass
  <1>2. NamesKept(t, w)
    BY DEF More, NamesKept
  <1> QED
    BY <1>1, <1>2 DEF More, Grows

\* A statement that changes no row of test.
LEMMA MoreOfNone ==
    ASSUME NEW t \in Tables, NEW u, NEW own, More(t, u, 0)
    PROVE  More(t, u, own)
  <1>1. 0 \notin DOMAIN t.test
    BY SeqRows
  <1> QED
    BY <1>1 DEF More

\* A statement that does nothing.
LEMMA MoreOfSame ==
    ASSUME NEW t, NEW own
    PROVE  More(t, t, own)
BY DEF More, Grows, NamesKept

\* What each statement on the tables adds, from here to WithClassNamesMore.
LEMMA WithClientMore ==
    ASSUME NEW t, Sound(t), NEW u \in Clients
    PROVE  /\ Sound(WithClient(t, u)) /\ More(t, WithClient(t, u), 0)
           /\ ClientID(WithClient(t, u), u) # 0
  <1>1. CASE ClientID(t, u) # 0
    BY <1>1, MoreOfSame DEF WithClient
  <1>2. CASE ClientID(t, u) = 0
    <2> DEFINE w == WithClient(t, u)
    <2>0. t \in Tables /\ Resolved(t)
      BY DEF Sound
    <2>1. /\ w.client = Append(t.client, u) /\ w.testrun = t.testrun
          /\ w.testclassinfo = t.testclassinfo /\ w.test = t.test
          /\ w.names = t.names /\ w.entries = t.entries
          /\ w = [client |-> w.client, testrun |-> w.testrun,
                  testclassinfo |-> w.testclassinfo, test |-> w.test,
                  names |-> w.names, entries |-> w.entries]
      BY <1>2, <2>0 DEF WithClient, Tables
    <2> HIDE DEF w
    <2>2. /\ t.client \in Seq(Clients) /\ w.client \in Seq(Clients)
          /\ Len(w.client) = Len(t.client) + 1
          /\ \A i \in 1..Len(t.client) : w.client[i] = t.client[i]
          /\ w.client[Len(t.client) + 1] = u
      BY <2>0, <2>1, AppendProperties DEF Tables
    <2>3. w \in Tables
      BY <2>0, <2>1, <2>2 DEF Tables
    <2>4. /\ DOMAIN t.client = 1..Len(t.client) /\ DOMAIN w.client = 1..Len(w.client)
          /\ Len(t.client) \in Nat
      BY <2>0, <2>3, SeqRows
    <2>5. Sound(w)
      BY <2>0, <2>1, <2>2, <2>3, <2>4 DEF Sound, Resolved
    <2>6. More(t, w, 0)
      BY <2>1, <2>2, <2>4 DEF More, Grows, NamesKept, TypeID
    <2>7. ClientID(w, u) # 0
      BY <2>2, <2>3, <2>4, ClientIDIs
    <2> QED
      BY <2>5, <2>6, <2>7 DEF w
  <1> QED
    BY <1>1, <1>2

LEMMA WithRunMore ==
    ASSUME NEW t, Sound(t), NEW u, ClientID(t, u) # 0
    PROVE  LET w == WithRun(t, u)
           IN  /\ Sound(w) /\ More(t, w, 0)
               /\ w.testrun # <<>> /\ Len(w.testrun) # 0
               /\ w.client[w.testrun[Len(w.testrun)].client] = u
  <1> DEFINE w == WithRun(t, u)
             row == [client |-> ClientID(t, u), ended |-> FALSE]
  <1>0. t \in Tables /\ Resolved(t)
    BY DEF Sound
  <1>1. w = [t EXCEPT !.testrun = Append(t.testrun, row)]
    BY <1>0 DEF WithRun, Tables
  <1> HIDE DEF w
  <1>2. row \in Runs /\ row.client \in DOMAIN t.client /\ t.client[row.client] = u
    BY <1>0, ClientIDIs DEF Runs
  <1> HIDE DEF row
  <1>3. /\ t.testrun \in Seq(Runs) /\ Append(t.testrun, row) \in Seq(Runs)
        /\ Len(Append(t.testrun, row)) = Len(t.testrun) + 1
        /\ \A i \in 1..Len(t.testrun) : Append(t.testrun, row)[i] = t.testrun[i]
        /\ Append(t.testrun, row)[Len(t.testrun) + 1] = row
    BY <1>0, <1>2, AppendProperties DEF Tables
  <1>4. /\ w \in Tables
        /\ w.client = t.client /\ w.testrun = Append(t.testrun, row)
        /\ w.testclassinfo = t.testclassinfo
        /\ w.test = t.test /\ w.names = t.names /\ w.entries = t.entries
    BY <1>0, <1>1, <1>3, SetRuns
  <1>5. /\ DOMAIN t.testrun = 1..Len(t.testrun) /\ DOMAIN w.testrun = 1..Len(w.testrun)
        /\ Len(t.testrun) \in Nat
    BY <1>0, <1>4, SeqRows
  <1>6. \A i \in DOMAIN w.testrun : i \in DOMAIN t.testrun \/ i = Len(t.testrun) + 1
    BY <1>3, <1>4, <1>5
  <1>7. Sound(w)
    BY <1>0, <1>2, <1>3, <1>4, <1>5, <1>6 DEF Sound, Resolved
  <1>8. More(t, w, 0)
    BY <1>3, <1>4, <1>5 DEF More, Grows, NamesKept, TypeID
  <1>9. w.testrun # <<>> /\ Len(w.testrun) # 0
        /\ w.client[w.testrun[Len(w.testrun)].client] = u
    BY <1>2, <1>3, <1>4, <1>5, EmptySeq
  <1> QED
    BY <1>7, <1>8, <1>9 DEF w

LEMMA WithRunEndedMore ==
    ASSUME NEW t, Sound(t), NEW ended \in BOOLEAN
    PROVE  LET w == WithRunEnded(t, ended)
           IN  /\ Sound(w) /\ More(t, w, 0)
               /\ Len(w.testrun) = Len(t.testrun) /\ w.client = t.client
  <1> DEFINE w == WithRunEnded(t, ended)
             n == Len(t.testrun)
  <1>0. t \in Tables /\ Resolved(t)
    BY DEF Sound
  <1> DEFINE runs == [t.testrun EXCEPT ![n] = [@ EXCEPT !.ended = ended]]
  <1>1. w = [t EXCEPT !.testrun = runs]
    BY <1>0 DEF WithRunEnded, Tables
  <1> HIDE DEF w
  <1>2. /\ n \in Nat /\ DOMAIN t.testrun = 1..n /\ t.testrun \in Seq(Runs)
        /\ \A i \in 1..n : t.testrun[i] \in Runs
    BY <1>0, SeqRows DEF Tables
  <1>3. /\ runs \in [1..n -> Runs]
        /\ \A i \in 1..n : runs[i].client = t.testrun[i].client
    BY <1>2 DEF Runs
  <1> HIDE DEF runs
  <1>4. runs \in Seq(Runs) /\ Len(runs) = n /\ DOMAIN runs = 1..n
    BY <1>2, <1>3, SeqDef, LenProperties
  <1>5. /\ w \in Tables
        /\ w.client = t.client /\ w.testrun = runs
        /\ w.testclassinfo = t.testclassinfo
        /\ w.test = t.test /\ w.names = t.names /\ w.entries = t.entries
    BY <1>0, <1>1, <1>4, SetRuns
  <1>6. Sound(w)
    BY <1>0, <1>2, <1>3, <1>4, <1>5 DEF Sound, Resolved
  <1>7. More(t, w, 0)
    BY <1>2, <1>3, <1>4, <1>5 DEF More, Grows, NamesKept, TypeID
  <1> QED
    BY <1>4, <1>5, <1>6, <1>7 DEF w

LEMMA WithTestMore ==
    ASSUME NEW t, Sound(t), NEW row \in Tests,
           row.testrun \in DOMAIN t.testrun, row.type \in DOMAIN t.testclassinfo,
           ParentThere(row, Len(t.test) + 1)
    PROVE  LET w == WithTest(t, row)
           IN  /\ Sound(w) /\ More(t, w, 0)
               /\ Len(w.test) = Len(t.test) + 1 /\ w.test[Len(t.test) + 1] = row
               /\ w.entries = t.entries /\ w.names = t.names /\ w.testrun = t.testrun
               /\ w.testclassinfo = t.testclassinfo
  <1> DEFINE w == WithTest(t, row)
  <1>0. t \in Tables /\ Resolved(t)
    BY DEF Sound
  <1>1. w = [t EXCEPT !.test = Append(t.test, row)]
    BY <1>0 DEF WithTest, Tables
  <1> HIDE DEF w
  <1>2. /\ t.test \in Seq(Tests) /\ Append(t.test, row) \in Seq(Tests)
        /\ Len(Append(t.test, row)) = Len(t.test) + 1
        /\ \A i \in 1..Len(t.test) : Append(t.test, row)[i] = t.test[i]
        /\ Append(t.test, row)[Len(t.test) + 1] = row
    BY <1>0, AppendProperties DEF Tables
  <1>3. /\ w \in Tables
        /\ w.client = t.client /\ w.testrun = t.testrun
        /\ w.testclassinfo = t.testclassinfo
        /\ w.test = Append(t.test, row) /\ w.names = t.names /\ w.entries = t.entries
    BY <1>0, <1>1, <1>2, SetTests
  <1>4. /\ DOMAIN t.test = 1..Len(t.test) /\ DOMAIN w.test = 1..Len(w.test)
        /\ Len(t.test) \in Nat
    BY <1>0, <1>3, SeqRows
  <1>5. \A i \in DOMAIN w.test : i \in DOMAIN t.test \/ i = Len(t.test) + 1
    BY <1>2, <1>3, <1>4
  <1>6. Sound(w)
    BY <1>0, <1>2, <1>3, <1>4, <1>5 DEF Sound, Resolved
  <1>7. More(t, w, 0)
    BY <1>2, <1>3, <1>4 DEF More, Grows, NamesKept, TypeID
  <1> QED
    BY <1>2, <1>3, <1>6, <1>7 DEF w

\* A row that is changed, but for its run and its class.
LEMMA ChangedMore ==
    ASSUME NEW t, Sound(t), NEW i \in DOMAIN t.test, NEW row \in Tests,
           row.testrun = t.test[i].testrun, row.type = t.test[i].type, ParentThere(row, i)
    PROVE  LET w == [t EXCEPT !.test = [t.test EXCEPT ![i] = row]]
           IN  Sound(w) /\ More(t, w, i) /\ Len(w.test) = Len(t.test)
  <1> DEFINE tests == [t.test EXCEPT ![i] = row]
             w == [t EXCEPT !.test = tests]
  <1>0. t \in Tables /\ Resolved(t)
    BY DEF Sound
  <1>1. /\ Len(t.test) \in Nat /\ DOMAIN t.test = 1..Len(t.test)
        /\ \A j \in 1..Len(t.test) : t.test[j] \in Tests
    BY <1>0, SeqRows
  <1>2. tests \in [1..Len(t.test) -> Tests]
    BY <1>1
  <1>3. \A j \in 1..Len(t.test) : tests[j] = IF j = i THEN row ELSE t.test[j]
    BY <1>1
  <1> HIDE DEF tests
  <1>4. tests \in Seq(Tests) /\ Len(tests) = Len(t.test) /\ DOMAIN tests = 1..Len(t.test)
    BY <1>1, <1>2, SeqDef, LenProperties
  <1>5. /\ w \in Tables
        /\ w.client = t.client /\ w.testrun = t.testrun
        /\ w.testclassinfo = t.testclassinfo
        /\ w.test = tests /\ w.names = t.names /\ w.entries = t.entries
    BY <1>0, <1>4, SetTests
  <1> HIDE DEF w
  <1>6. Sound(w)
    BY <1>0, <1>1, <1>3, <1>4, <1>5 DEF Sound, Resolved
  <1>7. More(t, w, i)
    BY <1>1, <1>3, <1>4, <1>5 DEF More, Grows, NamesKept, TypeID
  <1> QED
    BY <1>4, <1>5, <1>6, <1>7 DEF w, tests

LEMMA WithNamesMore ==
    ASSUME NEW t, Sound(t), NEW k \in Kinds, NEW container \in Containers,
           NEW ns \in SUBSET Names, IsFiniteSet(ns)
    PROVE  LET w == WithNames(t, k, container, ns)
           IN  /\ Sound(w) /\ More(t, w, 0)
               /\ w.test = t.test /\ w.entries = t.entries /\ w.client = t.client
               /\ w.testrun = t.testrun /\ w.testclassinfo = t.testclassinfo
  <1> DEFINE w == WithNames(t, k, container, ns)
             rows == {[container |-> container, name |-> n] : n \in ns}
             more == t.names[k] \o SetToSeq(rows)
             names == [t.names EXCEPT ![k] = more]
  <1>0. t \in Tables /\ Resolved(t)
    BY DEF Sound
  <1>1. w = [t EXCEPT !.names = names]
    BY <1>0 DEF WithNames, Tables
  <1> HIDE DEF w
  <1>2. SetToSeq(rows) \in Seq(NameRows)
    <2>1. rows \subseteq NameRows
      BY DEF NameRows
    <2>2. IsFiniteSet(rows)
      BY FiniteRows
    <2> HIDE DEF rows
    <2> QED
      BY <2>1, <2>2, SetToSeqIs, SeqMonotonic
  <1> HIDE DEF rows
  <1>3. /\ more \in Seq(NameRows) /\ Len(more) \in Nat /\ DOMAIN more = 1..Len(more)
        /\ t.names[k] \in Seq(NameRows) /\ Len(t.names[k]) \in Nat
        /\ DOMAIN t.names[k] = 1..Len(t.names[k])
        /\ \A i \in DOMAIN t.names[k] : i \in DOMAIN more /\ more[i] = t.names[k][i]
    <2>1. t.names[k] \in Seq(NameRows)
      BY <1>0 DEF Tables
    <2>2. /\ more \in Seq(NameRows)
          /\ Len(more) = Len(t.names[k]) + Len(SetToSeq(rows))
          /\ \A i \in 1..(Len(t.names[k]) + Len(SetToSeq(rows))) :
                more[i] = IF i <= Len(t.names[k]) THEN t.names[k][i]
                          ELSE SetToSeq(rows)[i - Len(t.names[k])]
      BY <1>2, <2>1, ConcatProperties
    <2> HIDE DEF more
    <2>3. /\ Len(t.names[k]) \in Nat /\ DOMAIN t.names[k] = 1..Len(t.names[k])
          /\ Len(SetToSeq(rows)) \in Nat
          /\ Len(more) \in Nat /\ DOMAIN more = 1..Len(more)
      BY <1>2, <2>1, <2>2, LenProperties
    <2> QED
      BY <2>1, <2>2, <2>3
  <1> HIDE DEF more
  <1>4. /\ names \in [Kinds -> Seq(NameRows)]
        /\ names[k] = more
        /\ \A q \in Kinds : q # k => names[q] = t.names[q]
    BY <1>0, <1>3 DEF Tables
  <1> HIDE DEF names
  <1>5. /\ w \in Tables
        /\ w.client = t.client /\ w.testrun = t.testrun
        /\ w.testclassinfo = t.testclassinfo
        /\ w.test = t.test /\ w.names = names /\ w.entries = t.entries
    BY <1>0, <1>1, <1>4, SetNames
  <1>6. NamesKept(t, w)
    BY <1>3, <1>4, <1>5 DEF NamesKept
  <1>7. Sound(w)
    <2>1. \A e \in t.entries : e.kind \in Kinds
      BY <1>0 DEF Tables, Entries
    <2> QED
      BY <1>0, <1>5, <1>6, <2>1 DEF Sound, Resolved, NamesKept
  <1>8. More(t, w, 0)
    BY <1>5, <1>6 DEF More, Grows, TypeID
  <1> QED
    BY <1>5, <1>7, <1>8 DEF w

LEMMA WithEntriesMore ==
    ASSUME NEW t, Sound(t), NEW k \in Kinds, NEW i \in DOMAIN t.test, NEW ns
    PROVE  LET w == WithEntries(t, k, i, ns)
           IN  /\ Sound(w) /\ More(t, w, i)
               /\ w.test = t.test /\ w.names = t.names /\ w.client = t.client
               /\ w.testrun = t.testrun /\ w.testclassinfo = t.testclassinfo
               /\ \A e \in w.entries :
                     e \in t.entries \/ (e.kind = k /\ t.names[k][e.name].name \in ns)
  <1> DEFINE w == WithEntries(t, k, i, ns)
             new == {[kind |-> k, test |-> i, name |-> Mapping(t, k, n)] :
                         n \in ns \cap Known(t, k)}
             entries == t.entries \cup new
  <1>0. t \in Tables /\ Resolved(t)
    BY DEF Sound
  <1>1. w = [t EXCEPT !.entries = entries]
    BY <1>0 DEF WithEntries, Tables
  <1> HIDE DEF w
  <1>2. i \in Nat
    BY <1>0, SeqRows
  <1>3. \A e \in new : /\ e \in Entries /\ e.kind = k /\ e.test = i
                       /\ e.name \in DOMAIN t.names[k]
                       /\ t.names[k][e.name].name \in ns
    BY <1>0, <1>2, MappingIs DEF Entries
  <1> HIDE DEF new
  <1>4. entries \in SUBSET Entries
    BY <1>0, <1>3 DEF Tables
  <1>5. \A e \in entries : e \in t.entries \/ e \in new
    OBVIOUS
  <1>6. t.entries \subseteq entries
    OBVIOUS
  <1> HIDE DEF entries
  <1>7. /\ w \in Tables
        /\ w.client = t.client /\ w.testrun = t.testrun
        /\ w.testclassinfo = t.testclassinfo
        /\ w.test = t.test /\ w.names = t.names /\ w.entries = entries
    BY <1>0, <1>1, <1>4, SetEntries
  <1>8. Sound(w)
    BY <1>0, <1>3, <1>5, <1>7 DEF Sound, Resolved
  <1>9. More(t, w, i)
    BY <1>3, <1>5, <1>6, <1>7 DEF More, Grows, NamesKept, TypeID
  <1> QED
    BY <1>3, <1>5, <1>7, <1>8, <1>9 DEF w

LEMMA WithExtraInfoMore ==
    ASSUME NEW t, Sound(t), NEW i \in DOMAIN t.test, NEW ns \in SUBSET Names, IsFiniteSet(ns)
    PROVE  LET w == WithExtraInfo(t, i, ns)
           IN  Sound(w) /\ More(t, w, i) /\ w.test = t.test
               /\ w.client = t.client /\ w.testrun = t.testrun
               /\ w.testclassinfo = t.testclassinfo
  <1> DEFINE unknown == IF Known(t, "extrainfo") = {} THEN {} ELSE ns \ Known(t, "extrainfo")
             u == WithNames(t, "extrainfo", [by |-> "nothing"], unknown)
             w == WithEntries(u, "extrainfo", i, ns)
  <1>1. "extrainfo" \in Kinds /\ [by |-> "nothing"] \in Containers
    BY DEF Kinds, Containers
  <1>2. unknown \in SUBSET Names /\ IsFiniteSet(unknown)
    <2>1. unknown \in SUBSET ns
      OBVIOUS
    <2> HIDE DEF unknown
    <2> QED
      BY <2>1, FS_Subset
  <1> HIDE DEF unknown
  <1>3. /\ Sound(u) /\ More(t, u, 0) /\ u.test = t.test /\ u.client = t.client
        /\ u.testrun = t.testrun /\ u.testclassinfo = t.testclassinfo
    BY <1>1, <1>2, WithNamesMore
  <1> HIDE DEF u
  <1>4. /\ Sound(w) /\ More(u, w, i) /\ w.test = u.test /\ w.client = u.client
        /\ w.testrun = u.testrun /\ w.testclassinfo = u.testclassinfo
    BY <1>1, <1>3, WithEntriesMore
  <1> HIDE DEF w
  <1>5. More(t, w, i)
    <2>1. t \in Tables
      BY DEF Sound
    <2>2. More(t, u, i)
      BY <1>3, <2>1, MoreOfNone
    <2> QED
      BY <1>4, <2>2, MoreTwice
  <1>6. WithExtraInfo(t, i, ns) = w
    BY DEF WithExtraInfo, w, u, unknown
  <1> QED
    BY <1>3, <1>4, <1>5, <1>6

LEMMA ClassRowMore ==
    ASSUME NEW t, Sound(t), NEW c, NEW parent,
           [type |-> c, parent |-> parent] \in ClassRows, ~HasClass(t, c)
    PROVE  LET w == ClassRow(t, c, parent)
           IN  /\ Sound(w) /\ More(t, w, 0) /\ HasClass(w, c)
               /\ w.testrun = t.testrun /\ w.test = t.test
               /\ \A q : q # c /\ HasClass(w, q) => HasClass(t, q)
  <1> DEFINE w == ClassRow(t, c, parent)
             row == [type |-> c, parent |-> parent]
             rows == Append(t.testclassinfo, row)
  <1>0. t \in Tables /\ Resolved(t)
    BY DEF Sound
  <1>1. w = [t EXCEPT !.testclassinfo = rows]
    BY <1>0 DEF ClassRow, Tables
  <1> HIDE DEF w
  <1>2. row \in ClassRows /\ row.type = c
    OBVIOUS
  <1> HIDE DEF row
  <1>3. /\ t.testclassinfo \in Seq(ClassRows) /\ rows \in Seq(ClassRows)
        /\ Len(rows) = Len(t.testclassinfo) + 1
        /\ \A i \in 1..Len(t.testclassinfo) : rows[i] = t.testclassinfo[i]
        /\ rows[Len(t.testclassinfo) + 1] = row
    BY <1>0, <1>2, AppendProperties DEF Tables
  <1> HIDE DEF rows
  <1>4. /\ w \in Tables
        /\ w.client = t.client /\ w.testrun = t.testrun
        /\ w.testclassinfo = rows
        /\ w.test = t.test /\ w.names = t.names /\ w.entries = t.entries
    BY <1>0, <1>1, <1>3, SetClasses
  <1>5. /\ DOMAIN t.testclassinfo = 1..Len(t.testclassinfo) /\ DOMAIN rows = 1..Len(rows)
        /\ Len(t.testclassinfo) \in Nat
    BY <1>0, <1>4, SeqRows
  <1>6. HasClass(w, c)
    BY <1>2, <1>3, <1>4, <1>5, TypeIDIs
  <1>7. ASSUME NEW q, q # c
        PROVE  TypeID(w, q) = TypeID(t, q)
    <2>2. {i \in DOMAIN t.testclassinfo : t.testclassinfo[i].type = q}
              = {i \in DOMAIN w.testclassinfo : w.testclassinfo[i].type = q}
      BY <1>2, <1>3, <1>4, <1>5, <1>7
    <2> QED
      BY <2>2, SameTypeID
  <1>8. Sound(w)
    BY <1>0, <1>3, <1>4, <1>5 DEF Sound, Resolved
  <1>9. More(t, w, 0)
    BY <1>3, <1>4, <1>5, <1>7 DEF More, Grows, NamesKept
  <1>10. \A q : q # c /\ HasClass(w, q) => HasClass(t, q)
    BY <1>7 DEF HasClass
  <1> QED
    BY <1>4, <1>6, <1>8, <1>9, <1>10 DEF w

LEMMA WithClassNamesMore ==
    ASSUME NEW t, Sound(t), NEW c \in Classes, NEW ns,
           \A k \in Kinds : ns[k] \in SUBSET Names /\ IsFiniteSet(ns[k])
    PROVE  LET w == WithClassNames(t, c, ns)
           IN  /\ Sound(w) /\ More(t, w, 0)
               /\ w.test = t.test /\ w.entries = t.entries /\ w.client = t.client
               /\ w.testrun = t.testrun /\ w.testclassinfo = t.testclassinfo
  <1> DEFINE container == [by |-> "type", is |-> c]
             u == WithNames(t, "arguments", container, ns["arguments"])
             w == WithNames(u, "extrainfo", container, ns["extrainfo"])
  <1>1. container \in Containers /\ "arguments" \in Kinds /\ "extrainfo" \in Kinds
    BY DEF Containers, Kinds
  <1>2. WithClassNames(t, c, ns) = w
    BY DEF WithClassNames
  <1> HIDE DEF container
  <1>3. /\ ns["arguments"] \in SUBSET Names /\ IsFiniteSet(ns["arguments"])
        /\ ns["extrainfo"] \in SUBSET Names /\ IsFiniteSet(ns["extrainfo"])
    BY <1>1
  <1>4. /\ Sound(u) /\ More(t, u, 0)
        /\ u.test = t.test /\ u.entries = t.entries /\ u.client = t.client
        /\ u.testrun = t.testrun /\ u.testclassinfo = t.testclassinfo
    BY <1>1, <1>3, WithNamesMore
  <1> HIDE DEF u
  <1>5. /\ Sound(w) /\ More(u, w, 0)
        /\ w.test = u.test /\ w.entries = u.entries /\ w.client = u.client
        /\ w.testrun = u.testrun /\ w.testclassinfo = u.testclassinfo
    BY <1>1, <1>3, <1>4, WithNamesMore
  <1> HIDE DEF w
  <1>6. More(t, w, 0)
    BY <1>4, <1>5, MoreTwice
  <1> QED
    BY <1>2, <1>4, <1>5, <1>6

-----------------------------------------------------------------------------
(* What a step does to the databases.                                      *)

\* A row that was merged still agrees with its original when neither is changed and
\* the copy gets no other names.
LEMMA CopyStays ==
    ASSUME DatabaseBook, NEW p \in copies,
           \A d \in DBs : Sound(db[d])' /\ Sound(disk[d])',
           Grows(db[From], db'[From]), Grows(db[To], db'[To]),
           db'[From].test[p.old] = db[From].test[p.old],
           db'[To].test[p.new] = db[To].test[p.new],
           NamesKept(disk[From], disk'[From]), disk[From].entries \subseteq disk'[From].entries,
           \A k \in Kinds : NamesOf(db'[To], k, p.new) \subseteq
               NamesOf(db[To], k, p.new) \cup NamesOf(disk[From], k, p.old)
    PROVE  CopyBook(p)'
  <1> DEFINE old == db[From].test[p.old]
             new == db[To].test[p.new]
  <1>0. From \in DBs /\ To \in DBs
    BY DEF DBs
  <1>1. /\ p.old \in DOMAIN db[From].test /\ p.new \in DOMAIN db[To].test
        /\ new.rated = old.rated /\ new.parent = old.parent
        /\ new.type = TypeID(db[To], TypeName(db[From], p.old))
        /\ db[To].client[db[To].testrun[new.testrun].client] = ClientOfRun(old.testrun)
        /\ \A k \in Kinds : NamesOf(db[To], k, p.new) \subseteq NamesOf(disk[From], k, p.old)
    BY DEF DatabaseBook, CopyBook
  <1>2. /\ Sound(db[From]) /\ Sound(db[To]) /\ Sound(disk[From])
    BY <1>0 DEF DatabaseBook
  <1>3. /\ old.testrun \in DOMAIN db[From].testrun /\ old.type \in DOMAIN db[From].testclassinfo
        /\ new.testrun \in DOMAIN db[To].testrun /\ new.type \in DOMAIN db[To].testclassinfo
    BY <1>1, <1>2 DEF Sound, Resolved
  <1>4. /\ p.old \in DOMAIN db'[From].test /\ p.new \in DOMAIN db'[To].test
        /\ db'[To].test[p.new] = new /\ db'[From].test[p.old] = old
    BY <1>1 DEF Grows
  <1>5. TypeName(db'[From], p.old) = TypeName(db[From], p.old)
    BY <1>3, <1>4 DEF Grows, TypeName
  <1>6. TypeID(db'[To], TypeName(db[From], p.old)) = TypeID(db[To], TypeName(db[From], p.old))
    <2>1. new.type # 0
      <3>1. db[To] \in Tables
        BY <1>2 DEF Sound
      <3> QED
        BY <1>3, <3>1, SeqRows
    <2>2. HasClass(db[To], TypeName(db[From], p.old))
      BY <1>1, <2>1 DEF HasClass
    <2> QED
      BY <2>2 DEF Grows
  <1>7. db'[To].client[db'[To].testrun[new.testrun].client]
            = db[To].client[db[To].testrun[new.testrun].client]
    <2>1. db[To].testrun[new.testrun].client \in DOMAIN db[To].client
      BY <1>2, <1>3 DEF Sound, Resolved
    <2> QED
      BY <1>3, <2>1 DEF Grows
  <1>8. ClientOfRun(old.testrun)' = ClientOfRun(old.testrun)
    <2>1. db[From].testrun[old.testrun].client \in DOMAIN db[From].client
      BY <1>2, <1>3 DEF Sound, Resolved
    <2>2. db'[From].client[db'[From].testrun[old.testrun].client]
              = db[From].client[db[From].testrun[old.testrun].client]
      <3>1. PICK r \in DOMAIN db[From].testrun : r = old.testrun
        BY <1>3
      <3>2. db'[From].testrun[r].client = db[From].testrun[r].client
        BY DEF Grows
      <3>3. db[From].testrun[r].client \in DOMAIN db[From].client
        BY <2>1, <3>1
      <3> HIDE DEF old
      <3> QED
        BY SMTT(30), <3>1, <3>2, <3>3 DEF Grows
    <2>3. ClientOfRun(old.testrun)'
              = db'[From].client[db'[From].testrun[db'[From].test[p.old].testrun].client]
      BY DEF ClientOfRun
    <2> QED
      BY <1>4, <2>2, <2>3 DEF ClientOfRun
  <1>9. ASSUME NEW k \in Kinds
        PROVE  NamesOf(db'[To], k, p.new) \subseteq NamesOf(disk'[From], k, p.old)
    <2>1. NamesOf(disk[From], k, p.old) \subseteq NamesOf(disk'[From], k, p.old)
      <3>1. \A e \in disk[From].entries : e.kind = k =>
                /\ e \in disk'[From].entries
                /\ disk[From].names[k][e.name].name = disk'[From].names[k][e.name].name
        BY <1>2 DEF Sound, Resolved, NamesKept
      <3> QED
        BY <3>1, FewerNames
    <2> QED
      BY <1>1, <2>1
  <1> QED
    BY <1>1, <1>4, <1>5, <1>6, <1>7, <1>8, <1>9 DEF CopyBook

\* A statement on d that adds something: tables are committed, more is written.
Adds(d, tables, more, own) ==
    /\ disk' = [disk EXCEPT ![d] = tables]
    /\ db' = [db EXCEPT ![d] = more]
    /\ Sound(tables) /\ Sound(more) /\ Behind(tables, more)
    /\ More(db[d], more, own)
    /\ NamesKept(disk[d], tables) /\ disk[d].entries \subseteq tables.entries

\* The tables stay sound, and behind each other.
LEMMA AddsTypes ==
    ASSUME DatabaseBook, NEW d \in DBs, NEW tables, NEW more, NEW own,
           Adds(d, tables, more, own)
    PROVE  /\ db' \in [DBs -> Tables] /\ disk' \in [DBs -> Tables]
           /\ db'[d] = more /\ disk'[d] = tables
           /\ \A e \in DBs : e # d => db'[e] = db[e] /\ disk'[e] = disk[e]
           /\ \A e \in DBs : Sound(db[e])' /\ Sound(disk[e])' /\ Behind(disk[e], db[e])'
  <1>1. db \in [DBs -> Tables] /\ disk \in [DBs -> Tables]
    BY DEF DatabaseBook
  <1>2. tables \in Tables /\ more \in Tables
    BY DEF Adds, Sound
  <1>3. /\ db' \in [DBs -> Tables] /\ disk' \in [DBs -> Tables]
        /\ db'[d] = more /\ disk'[d] = tables
        /\ \A e \in DBs : e # d => db'[e] = db[e] /\ disk'[e] = disk[e]
    BY <1>1, <1>2 DEF Adds
  <1>4. ASSUME NEW e \in DBs
        PROVE  Sound(db'[e]) /\ Sound(disk'[e]) /\ Behind(disk'[e], db'[e])
    <2>1. CASE e = d
      BY <1>3, <2>1 DEF Adds
    <2>2. CASE e # d
      <3>1. Sound(db[e]) /\ Sound(disk[e]) /\ Behind(disk[e], db[e])
        BY DEF DatabaseBook
      <3> QED
        BY <1>3, <2>2, <3>1
    <2> QED
      BY <2>1, <2>2
  <1>5. \A e \in DBs : Sound(db[e])' /\ Sound(disk[e])' /\ Behind(disk[e], db[e])'
    BY <1>4 DEF Sound, Resolved, Behind, NamesKept
  <1> QED
    BY <1>3, <1>5

\* The row own, 0 for none, is not one of those that were merged.
NotCopied(d, own) ==
    \/ own = 0
    \/ own = Len(db[d].test) /\ Own(d)

\* A statement that adds something keeps what is known of the databases.
LEMMA AddsKeepsDatabases ==
    ASSUME DatabaseBook, NEW d \in DBs, NEW tables, NEW more, NEW own,
           Adds(d, tables, more, own), NotCopied(d, own), UNCHANGED copies
    PROVE  DatabaseBook'
  <1>1. /\ db' \in [DBs -> Tables] /\ disk' \in [DBs -> Tables]
        /\ db'[d] = more /\ disk'[d] = tables
        /\ \A e \in DBs : e # d => db'[e] = db[e] /\ disk'[e] = disk[e]
        /\ \A e \in DBs : Sound(db[e])' /\ Sound(disk[e])' /\ Behind(disk[e], db[e])'
    BY AddsTypes
  <1>2. ASSUME NEW e \in DBs
        PROVE  /\ Grows(db[e], db'[e])
               /\ NamesKept(disk[e], disk'[e]) /\ disk[e].entries \subseteq disk'[e].entries
    BY <1>1, MoreOfSame DEF Adds, More
  <1>3. From \in DBs /\ To \in DBs /\ From # To
    BY DEF DBs, From, To
  <1>4. ASSUME NEW p \in copies
        PROVE  CopyBook(p)'
    <2>1. /\ p.old \in DOMAIN db[From].test /\ p.new \in DOMAIN db[To].test
          /\ \A k \in Kinds : NamesOf(db[To], k, p.new) \subseteq NamesOf(disk[From], k, p.old)
      BY DEF DatabaseBook, CopyBook
    <2>2. p.old # 0 /\ p.new # 0
      <3>1. db[From] \in Tables /\ db[To] \in Tables
        BY <1>3 DEF DatabaseBook
      <3> QED
        BY <2>1, <3>1, SeqRows
    <2>3. (d = From => p.old # own) /\ (d = To => p.new # own)
      BY <2>2 DEF NotCopied, Own
    <2>4. db'[From].test[p.old] = db[From].test[p.old]
      BY <1>1, <1>3, <2>1, <2>3 DEF Adds, More
    <2>5. db'[To].test[p.new] = db[To].test[p.new]
      BY <1>1, <1>3, <2>1, <2>3 DEF Adds, More
    <2>6. \A k \in Kinds : NamesOf(db'[To], k, p.new)
                  \subseteq NamesOf(db[To], k, p.new)
                                \cup NamesOf(disk[From], k, p.old)
      <3> TAKE k \in Kinds
      <3>1. CASE d = To
        <4>1. \A e \in more.entries : e.test = p.new => e \in db[To].entries
          BY <2>1, <2>3, <3>1 DEF Adds, More
        <4>2. \A e \in db[To].entries : e.kind = k =>
                  more.names[k][e.name].name = db[To].names[k][e.name].name
          BY <1>3, <3>1 DEF Adds, More, NamesKept, DatabaseBook, Sound, Resolved
        <4>3. NamesOf(more, k, p.new) \subseteq NamesOf(db[To], k, p.new)
          BY <4>1, <4>2, FewerNames
        <4> QED
          BY <1>1, <3>1, <4>3
      <3>2. CASE d # To
        BY <1>1, <1>3, <3>2
      <3> QED
        BY <3>1, <3>2
    <2> QED
      BY <1>1, <1>2, <1>3, <2>4, <2>5, <2>6, CopyStays
  <1>5. \A p \in copies' : CopyBook(p)' /\ \A q \in copies' : p.new = q.new => p = q
    BY <1>4 DEF DatabaseBook
  <1> QED
    BY <1>1, <1>5 DEF DatabaseBook

\* What is there stays there.
LEMMA AddsKeepsFacts ==
    ASSUME DatabaseBook, DatabaseBook', NEW d \in DBs, NEW tables, NEW more, NEW own,
           Adds(d, tables, more, own)
    PROVE  \A e \in DBs :
              /\ Grows(db[e], db'[e])
              /\ \A u : ClientID(db[e], u) # 0 => ClientID(db'[e], u) # 0
              /\ \A c : HasClass(db[e], c) => HasClass(db'[e], c)
              /\ Len(db[e].testrun) # 0 => Len(db'[e].testrun) # 0
              /\ Len(db[e].test) <= Len(db'[e].test)
              /\ UNCHANGED copies /\ Own(e) => Own(e)'
  <1>1. /\ db'[d] = more
        /\ \A e \in DBs : e # d => db'[e] = db[e] /\ disk'[e] = disk[e]
    BY AddsTypes
  <1> SUFFICES ASSUME NEW e \in DBs
               PROVE  /\ Grows(db[e], db'[e])
                      /\ \A u : ClientID(db[e], u) # 0 => ClientID(db'[e], u) # 0
                      /\ \A c : HasClass(db[e], c) => HasClass(db'[e], c)
                      /\ Len(db[e].testrun) # 0 => Len(db'[e].testrun) # 0
                      /\ Len(db[e].test) <= Len(db'[e].test)
                      /\ UNCHANGED copies /\ Own(e) => Own(e)'
    OBVIOUS
  <1>2. Grows(db[e], db'[e])
    BY <1>1, MoreOfSame DEF Adds, More
  <1>3. db[e] \in Tables /\ db'[e] \in Tables
    BY DEF DatabaseBook
  <1>4. ASSUME NEW u, ClientID(db[e], u) # 0
        PROVE  ClientID(db'[e], u) # 0
    <2>1. PICK i \in DOMAIN db[e].client : db[e].client[i] = u
      BY <1>3, <1>4, ClientIDIs
    <2>2. i \in DOMAIN db'[e].client /\ db'[e].client[i] = u
      BY <1>2, <2>1 DEF Grows
    <2> QED
      BY <1>3, <2>2, ClientIDIs
  <1>5. \A c : HasClass(db[e], c) => HasClass(db'[e], c)
    BY <1>2 DEF Grows, HasClass
  <1>6. /\ Len(db[e].testrun) \in Nat /\ DOMAIN db[e].testrun = 1..Len(db[e].testrun)
        /\ Len(db'[e].testrun) \in Nat /\ DOMAIN db'[e].testrun = 1..Len(db'[e].testrun)
        /\ Len(db[e].test) \in Nat /\ DOMAIN db[e].test = 1..Len(db[e].test)
        /\ Len(db'[e].test) \in Nat /\ DOMAIN db'[e].test = 1..Len(db'[e].test)
    BY <1>3, SeqRows
  <1>7. Len(db[e].testrun) # 0 => Len(db'[e].testrun) # 0
    <2>1. Len(db[e].testrun) # 0 => Len(db[e].testrun) \in DOMAIN db[e].testrun
      BY <1>6
    <2>2. Len(db[e].testrun) # 0 => Len(db[e].testrun) \in DOMAIN db'[e].testrun
      BY <1>2, <2>1 DEF Grows
    <2> QED
      BY <1>6, <2>2
  <1>8. Len(db[e].test) <= Len(db'[e].test)
    <2>1. Len(db[e].test) # 0 => Len(db[e].test) \in DOMAIN db[e].test
      BY <1>6
    <2>2. Len(db[e].test) # 0 => Len(db[e].test) \in DOMAIN db'[e].test
      BY <1>2, <2>1 DEF Grows
    <2> QED
      BY <1>6, <2>2
  <1>9. ASSUME UNCHANGED copies, Own(e)
        PROVE  Own(e)'
    <2>1. \A p \in copies : p.old \in DOMAIN db[From].test /\ p.new \in DOMAIN db[To].test
      BY DEF DatabaseBook, CopyBook
    <2>2. \A p \in copies : /\ e = From => p.old \in 1..Len(db[e].test)
                            /\ e = To => p.new \in 1..Len(db[e].test)
      BY <1>6, <2>1
    <2>3. ASSUME NEW p \in copies
          PROVE  /\ e = From => p.old # Len(db'[e].test)
                 /\ e = To => p.new # Len(db'[e].test)
      BY <1>6, <1>8, <1>9, <2>2 DEF Own
    <2>4. Len(db'[e].test) # 0
      BY <1>6, <1>8, <1>9 DEF Own
    <2> QED
      BY <1>9, <2>3, <2>4 DEF Own
  <1> QED
    BY <1>2, <1>4, <1>5, <1>7, <1>8, <1>9

-----------------------------------------------------------------------------
(* What is left to do.                                                     *)

LEMMA TaskIs ==
    ASSUME NEW op \in Ops, NEW d \in DBs, NEW arg \in Args
    PROVE  [op |-> op, db |-> d, arg |-> arg] \in Tasks
BY DEF Tasks

\* What comes before a statement, but for the one that is done.
LEMMA EarlierStays ==
    ASSUME todo \in Seq(Tasks), todo # <<>>, NEW P \in Seq(Tasks), todo' = P \o Tail(todo),
           NEW i \in 2..Len(todo), NEW op, NEW a \in Earlier(i, op)
    PROVE  \/ op = todo[1].op /\ a = todo[1].arg
           \/ a \in Earlier(Len(P) + i - 1, op)'
  <1>1. PICK j \in 1..(i - 1) : todo[j].op = op /\ a = todo[j].arg
    BY DEF Earlier
  <1>2. CASE j = 1
    BY <1>1, <1>2
  <1>3. CASE j # 1
    <2>1. /\ Len(P) \in Nat /\ Len(todo) \in Nat \ {0}
          /\ \A n \in 2..Len(todo) : todo'[Len(P) + n - 1] = todo[n]
      BY PushIs
    <2>2. j \in 2..Len(todo) /\ Len(P) + j - 1 \in 1..(Len(P) + i - 1 - 1)
      BY <1>3, <2>1
    <2>3. todo'[Len(P) + j - 1] = todo[j]
      BY <2>1, <2>2
    <2> DEFINE n == Len(P) + i - 1
               m == Len(P) + j - 1
    <2>4. m \in 1..(n - 1) /\ todo'[m].op = op /\ todo'[m].arg = a
      BY <1>1, <2>2, <2>3
    <2> HIDE DEF m, n
    <2>5. a \in Earlier(n, op)'
      BY <2>4 DEF Earlier
    <2> QED
      BY <2>5 DEF n
  <1> QED
    BY <1>2, <1>3

\* After a statement of a runner, which may have another one done first.
LEMMA RecordingStays ==
    ASSUME DatabaseBook, DatabaseBook', ProgramBook, Recording, todo # <<>>,
           NEW d \in DBs, todo[1].db = d,
           NEW tables, NEW more, NEW own, Adds(d, tables, more, own), UNCHANGED copies,
           NEW P \in Seq(Tasks), todo' = P \o Tail(todo),
           todo[1].op = "client" => ClientID(more, todo[1].arg) # 0,
           todo[1].op = "startRun" => Len(more.testrun) # 0,
           todo[1].op \in {"class", "monitorClass"} => HasClass(more, todo[1].arg),
           todo[1].op = "started" => Own(d)',
           todo[1].op = "endRun" => tables = more,
           \/ P = <<>>
           \/ /\ todo[1].op = "monitorClass"
              /\ P = <<[op |-> "monitorClass", db |-> d, arg |-> Root]>>
    PROVE  ProgramBook'
  <1> DEFINE n == Len(P)
  <1>0. todo \in Seq(Tasks)
    BY DEF ProgramBook
  <1>1. /\ todo' \in Seq(Tasks)
        /\ n \in Nat /\ Len(todo) \in Nat \ {0}
        /\ Len(todo') = n + Len(todo) - 1
        /\ \A j \in 1..n : todo'[j] = P[j]
        /\ \A i \in 2..Len(todo) : todo'[n + i - 1] = todo[i]
        /\ DOMAIN todo = 1..Len(todo) /\ DOMAIN todo' = 1..Len(todo')
    BY <1>0, PushIs, LenProperties
  <1>2. /\ db'[d] = more /\ disk'[d] = tables
        /\ \A e \in DBs : e # d => db'[e] = db[e] /\ disk'[e] = disk[e]
    BY AddsTypes
  <1>3. /\ \A u : ClientID(db[d], u) # 0 => ClientID(db'[d], u) # 0
        /\ \A c : HasClass(db[d], c) => HasClass(db'[d], c)
        /\ Len(db[d].testrun) # 0 => Len(db'[d].testrun) # 0
        /\ Own(d) => Own(d)'
    BY AddsKeepsFacts
  <1>4. /\ todo[1].op = "client" => ClientID(db'[d], todo[1].arg) # 0
        /\ todo[1].op = "startRun" => Len(db'[d].testrun) # 0
        /\ todo[1].op \in {"class", "monitorClass"} => HasClass(db'[d], todo[1].arg)
        /\ todo[1].op = "started" => Own(d)'
    BY <1>2
  <1>5. ASSUME NEW i \in 2..Len(todo)
        PROVE  todo[i].db = d
    BY SMTT(30), <1>1 DEF Recording, RecordingTask
  <1>6. todo' # <<>> => todo'[1].db = d
    <2>1. CASE P = <<>>
      <3>1. todo' # <<>> => 2 \in 2..Len(todo) /\ n = 0
        BY <1>1, <2>1, EmptySeq
      <3>2. 2 \in 2..Len(todo) /\ n = 0 => todo'[1] = todo[2]
        BY <1>1
      <3> QED
        BY <1>5, <3>1, <3>2
    <2>2. CASE P = <<[op |-> "monitorClass", db |-> d, arg |-> Root]>>
      <3>1. n = 1 /\ P[1].db = d
        BY <2>2
      <3> QED
        BY <1>1, <3>1
    <2> QED
      BY <2>1, <2>2
  <1>7. ASSUME NEW i \in 2..Len(todo)
        PROVE  RecordingTask(n + i - 1)'
    <2> DEFINE m == n + i - 1
    <2>1. RecordingTask(i) /\ todo'[m] = todo[i] /\ todo[i].db = d
      BY SMTT(30), <1>1, <1>5 DEF Recording
    <2>2. todo' # <<>>
      <3>1. Len(todo') # 0
        BY <1>1
      <3> QED
        BY <3>1
    <2>3. \A op : \A a \in Earlier(i, op) :
              (op = todo[1].op /\ a = todo[1].arg) \/ a \in Earlier(m, op)'
      BY <1>0, EarlierStays
    <2> HIDE DEF m
    <2>4. LET op == todo[i].op
              arg == todo[i].arg
          IN  /\ \/ op \in {"client", "startRun", "endRun"} /\ arg \in Clients
                 \/ op \in {"class", "started", "stopped", "finished"} /\ arg \in TestClasses
                 \/ op \in {"monitorClass", "monitor"} /\ arg \in MonitorClasses \cup {Root}
              /\ op = "startRun" => ClientID(db[d], arg) # 0 \/ arg \in Earlier(i, "client")
              /\ op \in {"started", "monitor"} =>
                    Len(db[d].testrun) # 0 \/ Earlier(i, "startRun") # {}
              /\ op = "started" => HasClass(db[d], arg) \/ arg \in Earlier(i, "class")
              /\ op = "monitor" => HasClass(db[d], arg) \/ arg \in Earlier(i, "monitorClass")
              /\ op \in {"stopped", "finished"} => Own(d) \/ Earlier(i, "started") # {}
      BY <2>1 DEF RecordingTask
    <2>5. LET op == todo[i].op
              arg == todo[i].arg
          IN  /\ op = "startRun" => ClientID(db'[d], arg) # 0 \/ arg \in Earlier(m, "client")'
              /\ op \in {"started", "monitor"} =>
                    Len(db'[d].testrun) # 0 \/ Earlier(m, "startRun")' # {}
              /\ op = "started" => HasClass(db'[d], arg) \/ arg \in Earlier(m, "class")'
              /\ op = "monitor" => HasClass(db'[d], arg) \/ arg \in Earlier(m, "monitorClass")'
              /\ op \in {"stopped", "finished"} => Own(d)' \/ Earlier(m, "started")' # {}
      <3>1. todo[i].op = "startRun" =>
                ClientID(db'[d], todo[i].arg) # 0 \/ todo[i].arg \in Earlier(m, "client")'
        BY <1>3, <1>4, <2>3, <2>4
      <3>2. todo[i].op \in {"started", "monitor"} =>
                Len(db'[d].testrun) # 0 \/ Earlier(m, "startRun")' # {}
        BY <1>3, <1>4, <2>3, <2>4
      <3>3. todo[i].op = "started" =>
                HasClass(db'[d], todo[i].arg) \/ todo[i].arg \in Earlier(m, "class")'
        BY <1>3, <1>4, <2>3, <2>4
      <3>4. todo[i].op = "monitor" =>
                HasClass(db'[d], todo[i].arg) \/ todo[i].arg \in Earlier(m, "monitorClass")'
        BY <1>3, <1>4, <2>3, <2>4
      <3>5. todo[i].op \in {"stopped", "finished"} => Own(d)' \/ Earlier(m, "started")' # {}
        BY <1>3, <1>4, <2>3, <2>4
      <3> QED
        BY <3>1, <3>2, <3>3, <3>4, <3>5
    <2>6. Own(todo[m].db)' <=> Own(d)'
      BY <2>1 DEF Own
    <2>7. RecordingTask(m)'
      BY <1>6, <2>1, <2>2, <2>4, <2>5, <2>6 DEF RecordingTask
    <2> QED
      BY <2>7 DEF m
  <1>8. ASSUME NEW j \in 1..n
        PROVE  RecordingTask(j)'
    <2>1. P = <<[op |-> "monitorClass", db |-> d, arg |-> Root]>> /\ j = 1
      BY <1>1
    <2>2. todo'[j].op = "monitorClass" /\ todo'[j].db = d /\ todo'[j].arg = Root
      BY <1>1, <2>1
    <2>3. todo'[1].db = d
      BY <2>1, <2>2
    <2> QED
      BY <2>2, <2>3 DEF RecordingTask
  <1>9. Recording'
    <2>1. ASSUME NEW m \in DOMAIN todo'
          PROVE  RecordingTask(m)'
      <3>1. CASE m \in 1..n
        BY <1>8, <3>1
      <3>2. CASE m \notin 1..n
        <4>0. m \in 1..(n + Len(todo) - 1)
          BY <1>1
        <4>1. m + 1 - n \in 2..Len(todo) /\ n + (m + 1 - n) - 1 = m
          <5>1. n \in Nat /\ Len(todo) \in Nat \ {0}
            BY <1>1
          <5> HIDE DEF n
          <5> QED
            BY SMTT(30), <3>2, <4>0, <5>1
        <4>2. RecordingTask(n + (m + 1 - n) - 1)'
          BY <1>7, <4>1
        <4> QED
          BY <4>1, <4>2
      <3> QED
        BY <3>1, <3>2
    <2>2. ASSUME todo' # <<>>
          PROVE  todo'[Len(todo')].op = "endRun"
      <3>1. CASE Len(todo) \in 2..Len(todo)
        BY <1>1, <3>1 DEF Recording
      <3>2. CASE Len(todo) \notin 2..Len(todo)
        <4>1. Len(todo) = 1
          BY <1>1, <3>2
        <4>2. todo[1].op = "endRun"
          BY <4>1 DEF Recording
        <4>3. P = <<>>
          BY <4>2
        <4>4. Len(todo') = 0
          BY <1>1, <4>1, <4>3
        <4> QED
          BY <1>1, <2>2, <4>4, EmptySeq
      <3> QED
        BY <3>1, <3>2
    <2> QED
      BY <2>1, <2>2 DEF Recording
  <1>10. ASSUME NEW e \in DBs
         PROVE  db'[e] = disk'[e] \/ (todo' # <<>> /\ todo'[1].db = e)
    <2>1. CASE e # d
      BY <1>2, <2>1 DEF ProgramBook
    <2>2. CASE e = d /\ todo' # <<>>
      BY <1>6, <2>2
    <2>3. CASE e = d /\ todo' = <<>>
      <3>1. Len(todo') = 0
        BY <2>3
      <3>2. Len(todo) = 1
        BY <1>1, <3>1
      <3>3. todo[1].op = "endRun"
        BY <3>2 DEF Recording
      <3> QED
        BY <1>2, <2>3, <3>3
    <2> QED
      BY <2>1, <2>2, <2>3
  <1> QED
    BY <1>1, <1>9, <1>10 DEF ProgramBook

-----------------------------------------------------------------------------
(* The runner.                                                             *)

\* The statement that a runner is at.
LEMMA RunnerHead ==
    ASSUME DatabaseBook, ProgramBook, NEW op, Task(op), op \notin MergeOps
    PROVE  LET arg == todo[1].arg
           IN  /\ Recording /\ todo # <<>> /\ todo[1].op = op /\ Head(todo) = todo[1]
               /\ todo[1].db \in DBs
               /\ op \in {"client", "startRun", "endRun"} => arg \in Clients
               /\ op \in {"class", "started", "stopped", "finished"} => arg \in TestClasses
               /\ op \in {"monitorClass", "monitor"} => arg \in MonitorClasses \cup {Root}
               /\ op = "startRun" => ClientID(db[todo[1].db], arg) # 0
               /\ op \in {"started", "monitor"} =>
                     Len(db[todo[1].db].testrun) # 0 /\ HasClass(db[todo[1].db], arg)
               /\ op \in {"stopped", "finished"} => Own(todo[1].db)
  <1>1. todo \in Seq(Tasks) /\ todo # <<>> /\ Head(todo) = todo[1] /\ todo[1].op = op
    BY DEF ProgramBook, Task
  <1>2. 1 \in DOMAIN todo /\ todo[1] \in Tasks
    <2>1. Len(todo) \in Nat /\ Len(todo) # 0 /\ DOMAIN todo = 1..Len(todo)
      BY <1>1, EmptySeq, LenProperties
    <2>2. 1 \in 1..Len(todo)
      BY <2>1
    <2> QED
      BY <1>1, <2>1, <2>2, ElementOfSeq
  <1>3. Recording
    BY <1>1, <1>2 DEF ProgramBook, Merging, MergeReady
  <1>4. \A q : Earlier(1, q) = {}
    BY DEF Earlier
  <1>5. todo[1].db \in DBs
    BY <1>2 DEF Tasks
  <1>6. RecordingTask(1)
    BY <1>2, <1>3 DEF Recording
  <1> HIDE DEF Recording
  <1> QED
    BY <1>1, <1>3, <1>4, <1>5, <1>6 DEF RecordingTask

\* A statement that adds a row and then writes into it.
LEMMA MoreOfNew ==
    ASSUME NEW t, NEW u, NEW w, NEW i, More(t, u, 0), More(u, w, i), i \notin DOMAIN t.test
    PROVE  More(t, w, 0)
  <1>1. Grows(t, w)
    BY DEF More, Grows, HasClass
  <1>2. NamesKept(t, w)
    BY DEF More, NamesKept
  <1>3. \A j \in DOMAIN t.test : j \in DOMAIN u.test
    BY DEF More, Grows
  <1> QED
    BY <1>1, <1>2, <1>3 DEF More

\* A statement that commits some and writes more.
LEMMA StepAdds ==
    ASSUME DatabaseBook, NEW d \in DBs, NEW tables, NEW more, NEW own,
           Sound(tables), Sound(more), Behind(tables, more), More(db[d], more, own),
           NamesKept(db[d], tables), db[d].entries \subseteq tables.entries,
           disk' = [disk EXCEPT ![d] = tables], db' = [db EXCEPT ![d] = more]
    PROVE  Adds(d, tables, more, own)
  <1>1. NamesKept(disk[d], db[d]) /\ disk[d].entries \subseteq db[d].entries
    BY DEF DatabaseBook, Behind
  <1>2. NamesKept(disk[d], tables) /\ disk[d].entries \subseteq tables.entries
    BY <1>1 DEF NamesKept
  <1> QED
    BY <1>2 DEF Adds

LEMMA CommitAdds ==
    ASSUME DatabaseBook, NEW d \in DBs, NEW w, NEW own, Sound(w), More(db[d], w, own),
           disk' = [disk EXCEPT ![d] = w], db' = [db EXCEPT ![d] = w]
    PROVE  Adds(d, w, w, own)
  <1>1. Behind(w, w)
    BY DEF Behind, NamesKept
  <1>2. NamesKept(db[d], w) /\ db[d].entries \subseteq w.entries
    BY DEF More
  <1> QED
    BY <1>1, <1>2, StepAdds

LEMMA NothingAdds ==
    ASSUME DatabaseBook, NEW d \in DBs, UNCHANGED <<db, disk>>
    PROVE  Adds(d, disk[d], db[d], 0)
  <1>1. disk' = [disk EXCEPT ![d] = disk[d]] /\ db' = [db EXCEPT ![d] = db[d]]
    BY DEF DatabaseBook
  <1>2. /\ Sound(disk[d]) /\ Sound(db[d]) /\ Behind(disk[d], db[d])
        /\ NamesKept(disk[d], disk[d])
    BY DEF DatabaseBook, NamesKept
  <1> QED
    BY <1>1, <1>2, MoreOfSame DEF Adds

\* A row that a runner has just recorded was not merged.
LEMMA NewIsOwn ==
    ASSUME DatabaseBook, NEW d \in DBs, NEW tables, NEW more, NEW own,
           Adds(d, tables, more, own), UNCHANGED copies, Len(more.test) = Len(db[d].test) + 1
    PROVE  Own(d)'
  <1>1. db'[d] = more
    BY AddsTypes
  <1>2. Len(db[d].test) \in Nat /\ DOMAIN db[d].test = 1..Len(db[d].test)
    BY SeqRows DEF DatabaseBook
  <1>3. \A p \in copies : p.old \in DOMAIN db[From].test /\ p.new \in DOMAIN db[To].test
    BY DEF DatabaseBook, CopyBook
  <1>4. \A p \in copies : /\ d = From => p.old # Len(db[d].test) + 1
                          /\ d = To => p.new # Len(db[d].test) + 1
    BY <1>2, <1>3
  <1> QED
    BY <1>1, <1>2, <1>4 DEF Own

\* A statement of a runner that is done, and is not the one before a monitor's
\* class.
LEMMA AfterRunner ==
    ASSUME DatabaseBook, ProgramBook, Recording, todo # <<>>, NEW d \in DBs, todo[1].db = d,
           NEW tables, NEW more, NEW own, Adds(d, tables, more, own), NotCopied(d, own),
           UNCHANGED copies, todo' = Tail(todo),
           todo[1].op = "client" => ClientID(more, todo[1].arg) # 0,
           todo[1].op = "startRun" => Len(more.testrun) # 0,
           todo[1].op \in {"class", "monitorClass"} => HasClass(more, todo[1].arg),
           todo[1].op = "started" => Len(more.test) = Len(db[d].test) + 1,
           todo[1].op = "endRun" => tables = more
    PROVE  DatabaseBook' /\ ProgramBook'
  <1>1. DatabaseBook'
    BY AddsKeepsDatabases
  <1>2. <<>> \in Seq(Tasks) /\ todo' = <<>> \o Tail(todo)
    <2>1. Tail(todo) \in Seq(Tasks)
      BY HeadTailProperties DEF ProgramBook
    <2> QED
      BY <2>1, ConcatEmptySeq, EmptySeq
  <1>3. todo[1].op = "started" => Own(d)'
    BY NewIsOwn
  <1> QED
    BY <1>1, <1>2, <1>3, RecordingStays

\* The statements of a runner, from here to StartSessionStays, keep the books.
LEMMA SetClientInfoStays ==
    ASSUME DatabaseBook, ProgramBook, NEW d, NEW u, d = todo[1].db, u = todo[1].arg,
           SetClientInfo(d, u)
    PROVE  DatabaseBook' /\ ProgramBook'
  <1> DEFINE w == WithClient(db[d], u)
  <1>1. /\ Recording /\ todo # <<>> /\ d \in DBs /\ u \in Clients /\ todo[1].op = "client"
    BY RunnerHead DEF SetClientInfo, MergeOps
  <1>2. Sound(w) /\ More(db[d], w, 0) /\ ClientID(w, u) # 0
    BY <1>1, WithClientMore DEF DatabaseBook
  <1>3. /\ disk' = [disk EXCEPT ![d] = w] /\ db' = [db EXCEPT ![d] = w]
        /\ todo' = Tail(todo) /\ UNCHANGED copies
    BY DEF SetClientInfo, Commit, Step, Unmerged
  <1> HIDE DEF w
  <1>4. Adds(d, w, w, 0)
    BY <1>1, <1>2, <1>3, CommitAdds
  <1> QED
    BY <1>1, <1>2, <1>3, <1>4, AfterRunner DEF NotCopied

LEMMA StartNewTestRunStays ==
    ASSUME DatabaseBook, ProgramBook, NEW d, NEW u, d = todo[1].db, u = todo[1].arg,
           StartNewTestRun(d, u)
    PROVE  DatabaseBook' /\ ProgramBook'
  <1> DEFINE w == WithRun(db[d], u)
  <1>1. /\ Recording /\ todo # <<>> /\ d \in DBs /\ todo[1].op = "startRun"
        /\ ClientID(db[d], u) # 0
    BY RunnerHead DEF StartNewTestRun, MergeOps
  <1>2. Sound(w) /\ More(db[d], w, 0) /\ Len(w.testrun) # 0
    BY <1>1, WithRunMore DEF DatabaseBook
  <1>3. /\ disk' = [disk EXCEPT ![d] = w] /\ db' = [db EXCEPT ![d] = w]
        /\ todo' = Tail(todo) /\ UNCHANGED copies
    BY DEF StartNewTestRun, Commit, Step, Unmerged
  <1> HIDE DEF w
  <1>4. Adds(d, w, w, 0)
    BY <1>1, <1>2, <1>3, CommitAdds
  <1> QED
    BY <1>1, <1>2, <1>3, <1>4, AfterRunner DEF NotCopied

LEMMA EndTestRunStays ==
    ASSUME DatabaseBook, ProgramBook, NEW d, NEW u, d = todo[1].db, EndTestRun(d, u)
    PROVE  DatabaseBook' /\ ProgramBook'
  <1> DEFINE w == WithRunEnded(db[d], TRUE)
  <1>1. Recording /\ todo # <<>> /\ d \in DBs /\ todo[1].op = "endRun"
    BY RunnerHead DEF EndTestRun, MergeOps
  <1>2. Sound(w) /\ More(db[d], w, 0)
    BY <1>1, WithRunEndedMore DEF DatabaseBook
  <1>3. /\ disk' = [disk EXCEPT ![d] = w] /\ db' = [db EXCEPT ![d] = w]
        /\ todo' = Tail(todo) /\ UNCHANGED copies
    BY DEF EndTestRun, Commit, Step, Unmerged
  <1> HIDE DEF w
  <1>4. Adds(d, w, w, 0)
    BY <1>1, <1>2, <1>3, CommitAdds
  <1> QED
    BY <1>1, <1>2, <1>3, <1>4, AfterRunner DEF NotCopied

\* The names that a class declares.
LEMMA DeclaredNames ==
    ASSUME NEW c \in Classes, NEW k \in Kinds
    PROVE  /\ Declares[c][k] \in SUBSET Names /\ IsFiniteSet(Declares[c][k])
           /\ Declares[c][k] \cup Undeclared \in SUBSET Names
           /\ IsFiniteSet(Declares[c][k] \cup Undeclared)
  <1>1. Declares[c][k] \in SUBSET Names /\ Undeclared \in SUBSET Names
    <2> DEFINE all == {Declares[x][y] : x \in Classes, y \in Kinds}
    <2>1. Declares[c][k] \in all
      OBVIOUS
    <2>2. Names = (UNION all) \cup Undeclared
      BY DEF Names
    <2> HIDE DEF all
    <2>3. \A n \in Declares[c][k] : n \in UNION all
      BY <2>1
    <2>4. \A n \in Declares[c][k] : n \in Names
      BY <2>2, <2>3
    <2>5. \A n \in Undeclared : n \in Names
      BY <2>2
    <2> QED
      BY <2>4, <2>5
  <1>2. IsFiniteSet(Declares[c][k]) /\ IsFiniteSet(Undeclared)
    BY ClassesAssumption
  <1> QED
    BY <1>1, <1>2, FS_Union

\* The row of a class is committed, its names follow.
LEMMA InsertClassAdds ==
    ASSUME DatabaseBook, NEW d \in DBs, NEW c \in Classes, NEW parent,
           [type |-> c, parent |-> parent] \in ClassRows, ~HasClass(db[d], c),
           NEW ns, \A k \in Kinds : ns[k] \in SUBSET Names /\ IsFiniteSet(ns[k]),
           NEW row, row = ClassRow(db[d], c, parent),
           NEW more, more = WithClassNames(row, c, ns),
           disk' = [disk EXCEPT ![d] = row], db' = [db EXCEPT ![d] = more]
    PROVE  Adds(d, row, more, 0) /\ HasClass(more, c)
  <1>1. Sound(row) /\ More(db[d], row, 0) /\ HasClass(row, c)
    BY ClassRowMore DEF DatabaseBook
  <1>2. /\ Sound(more) /\ More(row, more, 0)
        /\ more.test = row.test /\ more.entries = row.entries /\ more.client = row.client
        /\ more.testrun = row.testrun /\ more.testclassinfo = row.testclassinfo
    BY <1>1, WithClassNamesMore
  <1>3. Behind(row, more)
    BY <1>2 DEF Behind, More
  <1>4. More(db[d], more, 0)
    BY <1>1, <1>2, MoreTwice
  <1>5. NamesKept(db[d], row) /\ db[d].entries \subseteq row.entries
    BY <1>1 DEF More
  <1>6. HasClass(more, c)
    BY <1>1, <1>2 DEF HasClass, TypeID
  <1> QED
    BY <1>1, <1>2, <1>3, <1>4, <1>5, <1>6, StepAdds

\* No other class has come in.
LEMMA InsertClassOnly ==
    ASSUME DatabaseBook, NEW d \in DBs, NEW c \in Classes, NEW parent,
           [type |-> c, parent |-> parent] \in ClassRows, ~HasClass(db[d], c),
           NEW ns, \A k \in Kinds : ns[k] \in SUBSET Names /\ IsFiniteSet(ns[k]),
           NEW row, row = ClassRow(db[d], c, parent),
           NEW more, more = WithClassNames(row, c, ns)
    PROVE  /\ more.testrun = db[d].testrun /\ more.test = db[d].test
           /\ \A q : q # c /\ HasClass(more, q) => HasClass(db[d], q)
  <1>1. /\ Sound(row) /\ row.testrun = db[d].testrun /\ row.test = db[d].test
        /\ \A q : q # c /\ HasClass(row, q) => HasClass(db[d], q)
    BY ClassRowMore DEF DatabaseBook
  <1>2. /\ more.testrun = row.testrun /\ more.testclassinfo = row.testclassinfo
        /\ more.test = row.test
    BY <1>1, WithClassNamesMore
  <1>3. \A q : HasClass(more, q) <=> HasClass(row, q)
    BY <1>2 DEF HasClass, TypeID
  <1> QED
    BY <1>1, <1>2, <1>3

LEMMA StoreTestClassInfoStays ==
    ASSUME DatabaseBook, ProgramBook, NEW d, NEW c, d = todo[1].db, c = todo[1].arg,
           StoreTestClassInfo(d, c)
    PROVE  DatabaseBook' /\ ProgramBook'
  <1>1. Recording /\ todo # <<>> /\ d \in DBs /\ c \in TestClasses /\ todo[1].op = "class"
    BY RunnerHead DEF StoreTestClassInfo, MergeOps
  <1>2. c \in Classes
    BY <1>1 DEF Classes
  <1>3. CASE HasClass(db[d], c)
    <2>1. todo' = Tail(todo) /\ UNCHANGED <<db, disk, copies>>
      BY <1>3 DEF StoreTestClassInfo, Skip, Unmerged
    <2>2. Adds(d, disk[d], db[d], 0)
      BY <1>1, <2>1, NothingAdds
    <2> QED
      BY <1>1, <1>3, <2>1, <2>2, AfterRunner DEF NotCopied
  <1>4. CASE ~HasClass(db[d], c)
    <2> DEFINE row == ClassRow(db[d], c, NoClass)
               more == WithClassNames(row, c, Declares[c])
    <2>1. /\ disk' = [disk EXCEPT ![d] = row] /\ db' = [db EXCEPT ![d] = more]
          /\ todo' = Tail(todo) /\ UNCHANGED copies
      BY <1>4 DEF StoreTestClassInfo, InsertClass, Step, Unmerged
    <2>0. [type |-> c, parent |-> NoClass] \in ClassRows
      BY <1>2 DEF ClassRows
    <2>2. Adds(d, row, more, 0) /\ HasClass(more, c)
      <3>1. \A k \in Kinds : Declares[c][k] \in SUBSET Names /\ IsFiniteSet(Declares[c][k])
        BY <1>2, DeclaredNames
      <3>2. row = ClassRow(db[d], c, NoClass) /\ more = WithClassNames(row, c, Declares[c])
        OBVIOUS
      <3> HIDE DEF row, more
      <3> QED
        BY <1>1, <1>2, <1>4, <2>0, <2>1, <3>1, <3>2, InsertClassAdds
    <2> HIDE DEF row, more
    <2> QED
      BY <1>1, <2>1, <2>2, AfterRunner DEF NotCopied
  <1> QED
    BY <1>3, <1>4

LEMMA NewTestStartedStays ==
    ASSUME DatabaseBook, ProgramBook, NEW d, NEW c, d = todo[1].db, c = todo[1].arg,
           NewTestStarted(d, c)
    PROVE  DatabaseBook' /\ ProgramBook'
  <1> DEFINE row == [testrun |-> Len(db[d].testrun), type |-> TypeID(db[d], c),
                     parent |-> 0, ismonitor |-> FALSE, rated |-> FALSE]
             w == WithTest(db[d], row)
  <1>1. /\ Recording /\ todo # <<>> /\ d \in DBs /\ todo[1].op = "started"
        /\ Len(db[d].testrun) # 0 /\ HasClass(db[d], c)
    BY RunnerHead DEF NewTestStarted, MergeOps
  <1>2. Sound(db[d]) /\ db[d] \in Tables
    BY <1>1 DEF DatabaseBook
  <1>3. /\ Len(db[d].testrun) \in DOMAIN db[d].testrun /\ Len(db[d].testrun) \in Nat
        /\ TypeID(db[d], c) \in DOMAIN db[d].testclassinfo /\ TypeID(db[d], c) \in Nat
    BY <1>1, <1>2, SeqRows, TypeIDIs
  <1>4. /\ row \in Tests /\ row.testrun = Len(db[d].testrun) /\ row.type = TypeID(db[d], c)
        /\ ParentThere(row, Len(db[d].test) + 1)
    BY <1>2, <1>3, SeqRows DEF Tests, ParentThere
  <1>5. /\ disk' = [disk EXCEPT ![d] = w] /\ db' = [db EXCEPT ![d] = w]
        /\ todo' = Tail(todo) /\ UNCHANGED copies
    BY DEF NewTestStarted, Commit, Step, Unmerged
  <1> HIDE DEF row
  <1>6. Sound(w) /\ More(db[d], w, 0) /\ Len(w.test) = Len(db[d].test) + 1
    BY <1>2, <1>3, <1>4, WithTestMore
  <1> HIDE DEF w
  <1>7. Adds(d, w, w, 0)
    BY <1>1, <1>5, <1>6, CommitAdds
  <1> QED
    BY <1>1, <1>5, <1>6, <1>7, AfterRunner DEF NotCopied

\* The row that was recorded last.
LEMMA OwnRow ==
    ASSUME DatabaseBook, NEW d \in DBs, Own(d)
    PROVE  LET n == Len(db[d].test)
           IN  n \in DOMAIN db[d].test /\ db[d].test[n] \in Tests /\ NotCopied(d, n)
  <1>1. /\ Len(db[d].test) \in Nat /\ DOMAIN db[d].test = 1..Len(db[d].test)
        /\ \A i \in DOMAIN db[d].test : db[d].test[i] \in Tests
    BY SeqRows DEF DatabaseBook
  <1> QED
    BY <1>1 DEF Own, NotCopied

LEMMA NewTestFinishedStays ==
    ASSUME DatabaseBook, ProgramBook, NEW d, NEW c, d = todo[1].db, c = todo[1].arg,
           NewTestFinished(d, c)
    PROVE  DatabaseBook' /\ ProgramBook'
  <1> DEFINE n == Len(db[d].test)
             row == [db[d].test[n] EXCEPT !.parent = 0]
             w == [db[d] EXCEPT !.test = [db[d].test EXCEPT ![n] = row]]
  <1>1. /\ Recording /\ todo # <<>> /\ d \in DBs /\ todo[1].op = "finished" /\ Own(d)
    BY RunnerHead DEF NewTestFinished, MergeOps
  <1>2. Sound(db[d]) /\ db[d] \in Tables
    BY <1>1 DEF DatabaseBook
  <1>3. n \in DOMAIN db[d].test /\ db[d].test[n] \in Tests /\ NotCopied(d, n)
    BY <1>1, OwnRow
  <1>4. /\ row \in Tests /\ row.testrun = db[d].test[n].testrun
        /\ row.type = db[d].test[n].type /\ ParentThere(row, n)
    <2>1. n \in Nat
      BY <1>2, SeqRows
    <2>2. /\ row \in Tests /\ row.testrun = db[d].test[n].testrun
          /\ row.type = db[d].test[n].type /\ row.parent = 0
      BY <1>3 DEF Tests
    <2> HIDE DEF row, n
    <2> QED
      BY <2>1, <2>2 DEF ParentThere
  <1>5. [db[d] EXCEPT !.test[n].parent = 0] = w
    BY <1>2, <1>3 DEF Tables
  <1>6. /\ disk' = [disk EXCEPT ![d] = w] /\ db' = [db EXCEPT ![d] = w]
        /\ todo' = Tail(todo) /\ UNCHANGED copies
    BY <1>5 DEF NewTestFinished, Commit, Step, Unmerged
  <1> HIDE DEF row
  <1>7. Sound(w) /\ More(db[d], w, n)
    BY <1>2, <1>3, <1>4, ChangedMore
  <1> HIDE DEF w, n
  <1>8. Adds(d, w, w, n)
    BY <1>1, <1>6, <1>7, CommitAdds
  <1> QED
    BY <1>1, <1>3, <1>6, <1>8, AfterRunner

LEMMA NewTestStoppedStays ==
    ASSUME DatabaseBook, ProgramBook, NEW d, NEW c, d = todo[1].db, c = todo[1].arg,
           NewTestStopped(d, c)
    PROVE  DatabaseBook' /\ ProgramBook'
  <1> DEFINE n == Len(db[d].test)
             s == WithEntries(db[d], "arguments", n, Declares[c]["arguments"])
             t == WithExtraInfo(s, n, Declares[c]["extrainfo"] \cup Undeclared)
             row == [t.test[n] EXCEPT !.rated = TRUE, !.parent = 1]
             w == [t EXCEPT !.test = [t.test EXCEPT ![n] = row]]
  <1>1. /\ Recording /\ todo # <<>> /\ d \in DBs /\ todo[1].op = "stopped"
        /\ c \in TestClasses /\ Own(d)
    BY RunnerHead DEF NewTestStopped, MergeOps
  <1>2. Sound(db[d]) /\ c \in Classes /\ "arguments" \in Kinds /\ "extrainfo" \in Kinds
    BY <1>1 DEF DatabaseBook, Classes, Kinds
  <1>3. n \in DOMAIN db[d].test /\ db[d].test[n] \in Tests /\ NotCopied(d, n)
    BY <1>1, OwnRow
  <1>4. /\ disk' = [disk EXCEPT ![d] = [t EXCEPT !.test[n].rated = TRUE, !.test[n].parent = 1]]
        /\ db' = [db EXCEPT ![d] = [t EXCEPT !.test[n].rated = TRUE, !.test[n].parent = 1]]
        /\ todo' = Tail(todo) /\ UNCHANGED copies
    BY DEF NewTestStopped, Commit, Step, Unmerged
  <1>5. Sound(s) /\ More(db[d], s, n) /\ s.test = db[d].test
    BY <1>2, <1>3, WithEntriesMore
  <1> HIDE DEF s
  <1>6. Sound(t) /\ More(s, t, n) /\ t.test = s.test
    <2>1. /\ Declares[c]["extrainfo"] \cup Undeclared \in SUBSET Names
          /\ IsFiniteSet(Declares[c]["extrainfo"] \cup Undeclared)
      BY <1>2, DeclaredNames
    <2> QED
      BY <1>3, <1>5, <2>1, WithExtraInfoMore
  <1> HIDE DEF t
  <1>7. /\ row \in Tests /\ row.testrun = t.test[n].testrun
        /\ row.type = t.test[n].type /\ ParentThere(row, n)
    <2>1. n \in Nat /\ n # 0
      BY <1>2, <1>3, SeqRows DEF Sound
    <2>2. /\ row \in Tests /\ row.testrun = t.test[n].testrun
          /\ row.type = t.test[n].type /\ row.parent = 1
      BY <1>3, <1>5, <1>6 DEF Tests
    <2> HIDE DEF row, n
    <2> QED
      BY <2>1, <2>2 DEF ParentThere
  <1>8. [t EXCEPT !.test[n].rated = TRUE, !.test[n].parent = 1] = w
    <2>1. t \in Tables /\ n \in DOMAIN t.test
      BY <1>3, <1>5, <1>6 DEF Sound
    <2> QED
      BY <2>1 DEF Tables
  <1> HIDE DEF row
  <1>9. Sound(w) /\ More(t, w, n)
    BY <1>3, <1>5, <1>6, <1>7, ChangedMore
  <1> HIDE DEF w, n
  <1>10. More(db[d], w, n)
    BY <1>5, <1>6, <1>9, MoreTwice
  <1>11. Adds(d, w, w, n)
    BY <1>1, <1>4, <1>8, <1>9, <1>10, CommitAdds
  <1> QED
    BY <1>1, <1>3, <1>4, <1>11, AfterRunner

LEMMA StoreMonitorStays ==
    ASSUME DatabaseBook, ProgramBook, NEW d, NEW c, d = todo[1].db, c = todo[1].arg,
           StoreMonitor(d, c)
    PROVE  DatabaseBook' /\ ProgramBook'
  <1> DEFINE i == Len(db[d].test) + 1
             test == [testrun |-> Len(db[d].testrun), type |-> TypeID(db[d], c),
                      parent |-> i - 1, ismonitor |-> TRUE, rated |-> TRUE]
             row == WithTest(db[d], test)
             s == WithEntries(row, "arguments", i, Declares[c]["arguments"])
             more == WithExtraInfo(s, i, Declares[c]["extrainfo"])
  <1>1. /\ Recording /\ todo # <<>> /\ d \in DBs /\ todo[1].op = "monitor"
        /\ c \in MonitorClasses \cup {Root}
        /\ Len(db[d].testrun) # 0 /\ HasClass(db[d], c)
    BY RunnerHead DEF StoreMonitor, MergeOps
  <1>2. /\ Sound(db[d]) /\ db[d] \in Tables
        /\ c \in Classes /\ "arguments" \in Kinds /\ "extrainfo" \in Kinds
    BY <1>1 DEF DatabaseBook, Classes, Kinds
  <1>3. /\ Len(db[d].testrun) \in DOMAIN db[d].testrun /\ Len(db[d].testrun) \in Nat
        /\ TypeID(db[d], c) \in DOMAIN db[d].testclassinfo /\ TypeID(db[d], c) \in Nat
        /\ i - 1 \in Nat /\ Len(db[d].test) \in Nat /\ DOMAIN db[d].test = 1..Len(db[d].test)
    BY <1>1, <1>2, SeqRows, TypeIDIs
  <1>4. /\ test \in Tests /\ test.testrun = Len(db[d].testrun) /\ test.type = TypeID(db[d], c)
        /\ ParentThere(test, i)
    <2>1. /\ test \in Tests /\ test.testrun = Len(db[d].testrun) /\ test.type = TypeID(db[d], c)
          /\ test.parent = i - 1 /\ test.ismonitor
      BY <1>3 DEF Tests
    <2> HIDE DEF test
    <2>2. i - 1 \in 0..i
      <3>1. \A k \in Nat : (k + 1) - 1 \in 0..(k + 1)
        OBVIOUS
      <3> QED
        BY <1>3, <3>1
    <2> QED
      BY <2>1, <2>2 DEF ParentThere
  <1>5. /\ disk' = [disk EXCEPT ![d] = row] /\ db' = [db EXCEPT ![d] = more]
        /\ todo' = Tail(todo) /\ UNCHANGED copies
    BY DEF StoreMonitor, Step, Unmerged
  <1> HIDE DEF test
  <1>6. Sound(row) /\ More(db[d], row, 0) /\ Len(row.test) = i
    BY <1>2, <1>3, <1>4, WithTestMore
  <1> HIDE DEF row
  <1>7. i \in DOMAIN row.test /\ i \notin DOMAIN db[d].test
    <2>1. DOMAIN row.test = 1..Len(row.test)
      BY <1>6, SeqRows DEF Sound
    <2>2. i \in Nat /\ i \in 1..i
      BY SMTT(30), <1>3
    <2>3. i \notin 1..Len(db[d].test)
      <3>1. \A n \in Nat : n + 1 \notin 1..n
        OBVIOUS
      <3> QED
        BY <1>3, <3>1
    <2> QED
      BY <1>3, <1>6, <2>1, <2>2, <2>3
  <1>8. /\ Sound(s) /\ More(row, s, i) /\ s.test = row.test /\ s.client = row.client
        /\ s.testrun = row.testrun /\ s.testclassinfo = row.testclassinfo
    BY <1>2, <1>6, <1>7, WithEntriesMore
  <1> HIDE DEF s
  <1>9. /\ Sound(more) /\ More(s, more, i) /\ more.test = s.test /\ more.client = s.client
        /\ more.testrun = s.testrun /\ more.testclassinfo = s.testclassinfo
    <2>1. /\ Declares[c]["extrainfo"] \in SUBSET Names
          /\ IsFiniteSet(Declares[c]["extrainfo"])
      BY <1>2, DeclaredNames
    <2> QED
      BY <1>7, <1>8, <2>1, WithExtraInfoMore
  <1> HIDE DEF more, i
  <1>10. More(row, more, i)
    BY <1>8, <1>9, MoreTwice
  <1>11. More(db[d], more, 0)
    BY <1>6, <1>7, <1>10, MoreOfNew
  <1>12. Behind(row, more)
    BY <1>8, <1>9, <1>10 DEF Behind, More
  <1>13. NamesKept(db[d], row) /\ db[d].entries \subseteq row.entries
    BY <1>6 DEF More
  <1>14. Adds(d, row, more, 0)
    BY <1>1, <1>5, <1>6, <1>9, <1>11, <1>12, <1>13, StepAdds
  <1> QED
    BY <1>1, <1>5, <1>14, AfterRunner DEF NotCopied

LEMMA StoreMonitorClassInfoStays ==
    ASSUME DatabaseBook, ProgramBook, NEW d, NEW c, d = todo[1].db, c = todo[1].arg,
           StoreMonitorClassInfo(d, c)
    PROVE  DatabaseBook' /\ ProgramBook'
  <1>1. /\ Recording /\ todo # <<>> /\ d \in DBs /\ c \in MonitorClasses \cup {Root}
        /\ todo[1].op = "monitorClass"
    BY RunnerHead DEF StoreMonitorClassInfo, MergeOps
  <1>2. c \in Classes /\ Root \in Classes
    BY <1>1 DEF Classes
  <1>3. CASE HasClass(db[d], c)
    <2>1. todo' = Tail(todo) /\ UNCHANGED <<db, disk, copies>>
      BY <1>3 DEF StoreMonitorClassInfo, Skip, Unmerged
    <2>2. Adds(d, disk[d], db[d], 0)
      BY <1>1, <2>1, NothingAdds
    <2> QED
      BY <1>1, <1>3, <2>1, <2>2, AfterRunner DEF NotCopied
  <1>4. CASE ~HasClass(db[d], c)
    <2> DEFINE parent == IF c = Root THEN NoClass ELSE Root
               row == ClassRow(db[d], c, parent)
               more == WithClassNames(row, c, Declares[c])
               first == <<[op |-> "monitorClass", db |-> d, arg |-> Root]>>
    <2>1. /\ disk' = [disk EXCEPT ![d] = row] /\ db' = [db EXCEPT ![d] = more]
          /\ todo' = (IF c = Root THEN Tail(todo) ELSE first \o Tail(todo))
          /\ UNCHANGED copies
      BY <1>4 DEF StoreMonitorClassInfo, InsertClass, Step, Unmerged
    <2>2. [type |-> c, parent |-> parent] \in ClassRows
      BY <1>2 DEF ClassRows
    <2> HIDE DEF parent
    <2>3. Adds(d, row, more, 0) /\ HasClass(more, c)
      <3>1. \A k \in Kinds : Declares[c][k] \in SUBSET Names /\ IsFiniteSet(Declares[c][k])
        BY <1>2, DeclaredNames
      <3>2. row = ClassRow(db[d], c, parent) /\ more = WithClassNames(row, c, Declares[c])
        OBVIOUS
      <3> HIDE DEF row, more
      <3> QED
        BY <1>1, <1>2, <1>4, <2>1, <2>2, <3>1, <3>2, InsertClassAdds
    <2> HIDE DEF row, more
    <2>4. CASE c = Root
      BY <1>1, <2>1, <2>3, <2>4, AfterRunner DEF NotCopied
    <2>5. CASE c # Root
      <3>1. first \in Seq(Tasks) /\ todo' = first \o Tail(todo)
        <4>1. [op |-> "monitorClass", db |-> d, arg |-> Root] \in Tasks
          <5>1. Root \in Args
            BY <1>2 DEF Args
          <5> QED
            BY <1>1, <5>1, TaskIs DEF Ops, RunnerOps
        <4> QED
          BY <2>1, <2>5, <4>1
      <3>2. DatabaseBook'
        BY <1>1, <2>1, <2>3, AddsKeepsDatabases DEF NotCopied
      <3> QED
        BY <1>1, <2>1, <2>3, <3>1, <3>2, RecordingStays
    <2> QED
      BY <2>4, <2>5
  <1> QED
    BY <1>3, <1>4

\* A statement of a runner on d.
Statement(d, op, arg) == [op |-> op, db |-> d, arg |-> arg]

\* A run of the runner.
LEMMA SessionIs ==
    ASSUME NEW d \in DBs, NEW u \in Clients, NEW c \in TestClasses,
           NEW m \in MonitorClasses \cup {NoClass}
    PROVE  LET s == Session(d, u, c, m)
               T(op, arg) == Statement(d, op, arg)
           IN  /\ s \in Seq(Tasks) /\ Len(s) \in Nat /\ DOMAIN s = 1..Len(s)
               /\ s[1] = T("client", u) /\ s[2] = T("startRun", u)
               /\ s[3] = T("class", c) /\ s[4] = T("started", c) /\ s[5] = T("stopped", c)
               /\ s[6] = T("class", c) /\ s[7] = T("started", c) /\ s[8] = T("stopped", c)
               /\ s[9] = T("finished", c)
               /\ s[Len(s)] = T("endRun", u)
               /\ Len(s) = 10
                  \/ (Len(s) = 12 /\ m \in MonitorClasses
                      /\ s[10] = T("monitorClass", m) /\ s[11] = T("monitor", m))
  <1> DEFINE T(op, arg) == Statement(d, op, arg)
             A == <<T("client", u), T("startRun", u),
                    T("class", c), T("started", c), T("stopped", c),
                    T("class", c), T("started", c), T("stopped", c), T("finished", c)>>
             B == <<T("monitorClass", m), T("monitor", m)>>
             E == <<T("endRun", u)>>
             s == Session(d, u, c, m)
  <1>1. u \in Args /\ c \in Args
    BY DEF Args, Classes
  <1>2. /\ T("client", u) \in Tasks /\ T("startRun", u) \in Tasks /\ T("endRun", u) \in Tasks
        /\ T("class", c) \in Tasks /\ T("started", c) \in Tasks /\ T("stopped", c) \in Tasks
        /\ T("finished", c) \in Tasks
    BY <1>1, TaskIs DEF Ops, RunnerOps, Statement
  <1>3. /\ A \in Seq(Tasks) /\ Len(A) = 9
        /\ A[1] = T("client", u) /\ A[2] = T("startRun", u)
        /\ A[3] = T("class", c) /\ A[4] = T("started", c) /\ A[5] = T("stopped", c)
        /\ A[6] = T("class", c) /\ A[7] = T("started", c) /\ A[8] = T("stopped", c)
        /\ A[9] = T("finished", c)
    BY <1>2
  <1>4. E \in Seq(Tasks) /\ Len(E) = 1 /\ E[1] = T("endRun", u)
    BY <1>2
  <1>5. s = (A \o (IF m = NoClass THEN <<>> ELSE B)) \o E
    BY DEF Session, Statement
  <1>6. CASE m = NoClass
    <2>1. s = A \o E
      <3>1. A \o <<>> = A
        BY <1>3, ConcatEmptySeq
      <3> QED
        BY <1>5, <1>6, <3>1
    <2>2. A \in Seq(Tasks) /\ Len(A) = 9 /\ E \in Seq(Tasks) /\ Len(E) = 1
      BY <1>3, <1>4
    <2> HIDE DEF A, E, T, s
    <2>3. /\ s \in Seq(Tasks) /\ Len(s) = 10
          /\ \A i \in 1..10 : s[i] = IF i <= 9 THEN A[i] ELSE E[i - 9]
      <3>1. /\ s \in Seq(Tasks) /\ Len(s) = Len(A) + Len(E)
            /\ \A i \in 1..(Len(A) + Len(E)) : s[i] = IF i <= Len(A) THEN A[i] ELSE E[i - Len(A)]
        BY <2>1, <2>2, ConcatProperties
      <3> QED
        BY <2>2, <3>1
    <2>4. DOMAIN s = 1..Len(s)
      BY <2>3, LenProperties
    <2>5. s[10] = E[1]
      BY <2>3
    <2> QED
      BY <1>3, <1>4, <2>3, <2>4, <2>5 DEF s, T
  <1>7. CASE m # NoClass
    <2>1. m \in MonitorClasses /\ T("monitorClass", m) \in Tasks /\ T("monitor", m) \in Tasks
      <3>1. m \in MonitorClasses /\ m \in Args
        BY <1>7 DEF Args, Classes
      <3> QED
        BY <3>1, TaskIs DEF Ops, RunnerOps, Statement
    <2>2. B \in Seq(Tasks) /\ Len(B) = 2 /\ B[1] = T("monitorClass", m) /\ B[2] = T("monitor", m)
      BY <2>1
    <2> DEFINE AB == A \o B
    <2>3. s = AB \o E
      BY <1>5, <1>7
    <2> HIDE DEF A, B, E, T, s
    <2>4. /\ AB \in Seq(Tasks) /\ Len(AB) = 11
          /\ \A i \in 1..11 : AB[i] = IF i <= 9 THEN A[i] ELSE B[i - 9]
      <3>1. A \in Seq(Tasks) /\ Len(A) = 9
        BY <1>3
      <3>2. B \in Seq(Tasks) /\ Len(B) = 2
        BY <2>2
      <3>3. /\ AB \in Seq(Tasks) /\ Len(AB) = Len(A) + Len(B)
            /\ \A i \in 1..(Len(A) + Len(B)) :
                  AB[i] = IF i <= Len(A) THEN A[i] ELSE B[i - Len(A)]
        BY <3>1, <3>2, ConcatProperties
      <3> HIDE DEF AB
      <3> QED
        BY <3>1, <3>2, <3>3
    <2> HIDE DEF AB
    <2>5. /\ s \in Seq(Tasks) /\ Len(s) = 12
          /\ \A i \in 1..12 : s[i] = IF i <= 11 THEN AB[i] ELSE E[i - 11]
      <3>1. AB \in Seq(Tasks) /\ Len(AB) = 11
        BY <2>4
      <3>2. E \in Seq(Tasks) /\ Len(E) = 1
        BY <1>4
      <3>3. /\ s \in Seq(Tasks) /\ Len(s) = Len(AB) + Len(E)
            /\ \A i \in 1..(Len(AB) + Len(E)) :
                  s[i] = IF i <= Len(AB) THEN AB[i] ELSE E[i - Len(AB)]
        BY <2>3, <3>1, <3>2, ConcatProperties
      <3> QED
        BY <3>1, <3>2, <3>3
    <2>6. DOMAIN s = 1..Len(s)
      BY <2>5, LenProperties
    <2>7. \A i \in 1..9 : s[i] = A[i]
      BY <2>4, <2>5
    <2>8. s[10] = B[1] /\ s[11] = B[2] /\ s[12] = E[1]
      BY <2>4, <2>5
    <2> QED
      BY <1>3, <1>4, <2>1, <2>2, <2>5, <2>6, <2>7, <2>8 DEF s, T
  <1> QED
    BY <1>6, <1>7

\* What is known of the databases is about nothing else.
LEMMA SameDatabases ==
    ASSUME DatabaseBook, UNCHANGED <<db, disk, copies>>
    PROVE  DatabaseBook'
  <1>1. \A p \in copies : CopyBook(p) <=> CopyBook(p)'
    BY DEF CopyBook, ClientOfRun
  <1> QED
    BY <1>1 DEF DatabaseBook

LEMMA StartSessionStays ==
    ASSUME DatabaseBook, ProgramBook, StartSession
    PROVE  DatabaseBook' /\ ProgramBook'
  <1>1. /\ todo = <<>> /\ UNCHANGED <<db, disk, copies>>
    BY DEF StartSession, Unmerged
  <1>2. DatabaseBook'
    BY <1>1, SameDatabases
  <1>3. PICK d \in DBs, u \in Clients, c \in TestClasses, m \in MonitorClasses \cup {NoClass} :
            todo' = Session(d, u, c, m)
    BY DEF StartSession
  <1> DEFINE T(op, arg) == Statement(d, op, arg)
  <1>4. /\ todo' \in Seq(Tasks) /\ Len(todo') \in Nat /\ DOMAIN todo' = 1..Len(todo')
        /\ todo'[1] = T("client", u) /\ todo'[2] = T("startRun", u)
        /\ todo'[3] = T("class", c) /\ todo'[4] = T("started", c) /\ todo'[5] = T("stopped", c)
        /\ todo'[6] = T("class", c) /\ todo'[7] = T("started", c) /\ todo'[8] = T("stopped", c)
        /\ todo'[9] = T("finished", c)
        /\ todo'[Len(todo')] = T("endRun", u)
        /\ Len(todo') = 10
           \/ (Len(todo') = 12 /\ m \in MonitorClasses
               /\ todo'[10] = T("monitorClass", m) /\ todo'[11] = T("monitor", m))
    BY SMTT(30), <1>3, SessionIs
  <1> HIDE DEF T
  <1>5. ASSUME NEW i \in Nat, NEW j \in Nat, 0 < j, j < i, NEW op, todo'[j].op = op
        PROVE  todo'[j].arg \in Earlier(i, op)'
    <2>1. j \in 1..(i - 1)
      BY <1>5
    <2> QED
      BY <1>5, <2>1 DEF Earlier
  <1>6. \A op, arg : /\ Statement(d, op, arg).op = op /\ Statement(d, op, arg).db = d
                     /\ Statement(d, op, arg).arg = arg
    BY DEF Statement
  <1>7. ASSUME NEW i \in DOMAIN todo'
        PROVE  RecordingTask(i)'
    <2>1. todo'[1].db = d
      BY <1>4, <1>6 DEF T
    <2>2. i \in Nat
      BY <1>4
    <2>3. CASE i \in {1, Len(todo')}
      BY <1>4, <1>6, <2>1, <2>3 DEF RecordingTask, T
    <2>4. CASE i = 2
      <3>1. u \in Earlier(2, "client")'
        <4>1. todo'[1].op = "client" /\ todo'[1].arg = u
          BY <1>4, <1>6 DEF T
        <4> QED
          BY <1>5, <4>1
      <3> QED
        BY SMTT(30), <1>4, <1>6, <2>1, <2>4, <3>1 DEF RecordingTask, T
    <2>5. CASE i \in {3, 6}
      BY <1>4, <1>6, <2>1, <2>5 DEF RecordingTask, T
    <2>6. CASE i \in {4, 7}
      <3>1. u \in Earlier(i, "startRun")' /\ c \in Earlier(i, "class")'
        <4>1. 2 < i /\ 3 < i
          BY <2>6
        <4>2. /\ todo'[2].op = "startRun" /\ todo'[2].arg = u
              /\ todo'[3].op = "class" /\ todo'[3].arg = c
          BY <1>4, <1>6 DEF T
        <4> QED
          BY <1>5, <2>2, <4>1, <4>2
      <3> QED
        BY <1>4, <1>6, <2>1, <2>6, <3>1 DEF RecordingTask, T
    <2>7. CASE i \in {5, 8, 9}
      <3>1. c \in Earlier(i, "started")'
        <4>1. 4 < i
          BY <2>7
        <4>2. todo'[4].op = "started" /\ todo'[4].arg = c
          BY <1>4, <1>6 DEF T
        <4> QED
          BY <1>5, <2>2, <4>1, <4>2
      <3> QED
        BY SMTT(30), <1>4, <1>6, <2>1, <2>7, <3>1 DEF RecordingTask, T
    <2>8. CASE i = 10 /\ Len(todo') = 12
      BY <1>4, <1>6, <2>1, <2>8 DEF RecordingTask, T
    <2>9. CASE i = 11 /\ Len(todo') = 12
      <3>1. u \in Earlier(11, "startRun")' /\ m \in Earlier(11, "monitorClass")'
        <4>1. /\ todo'[2].op = "startRun" /\ todo'[2].arg = u
              /\ todo'[10].op = "monitorClass" /\ todo'[10].arg = m
          BY <1>4, <1>6, <2>9 DEF T
        <4> QED
          BY <1>5, <4>1
      <3> QED
        BY <1>4, <1>6, <2>1, <2>9, <3>1 DEF RecordingTask, T
    <2>10. i \in 1..Len(todo') /\ Len(todo') \in {10, 12}
      BY <1>4
    <2>11. CASE Len(todo') = 10
      <3>1. i \in {1, Len(todo')} \/ i = 2 \/ i \in {3, 6} \/ i \in {4, 7} \/ i \in {5, 8, 9}
        BY <2>10, <2>11
      <3> QED
        BY <2>3, <2>4, <2>5, <2>6, <2>7, <3>1
    <2>12. CASE Len(todo') = 12
      <3>1. \/ i \in {1, Len(todo')} \/ i = 2 \/ i \in {3, 6} \/ i \in {4, 7} \/ i \in {5, 8, 9}
            \/ i = 10 \/ i = 11
        BY <2>10, <2>12
      <3> QED
        BY <2>3, <2>4, <2>5, <2>6, <2>7, <2>8, <2>9, <2>12, <3>1
    <2> QED
      BY <2>10, <2>11, <2>12
  <1>8. Recording'
    BY <1>4, <1>6, <1>7 DEF Recording, T
  <1>9. \A e \in DBs : db'[e] = disk'[e]
    BY <1>1 DEF ProgramBook
  <1> QED
    BY <1>2, <1>4, <1>8, <1>9 DEF ProgramBook

\* The program is over, and what was not committed is gone.
LEMMA OverStays ==
    ASSUME DatabaseBook, Over, UNCHANGED copies
    PROVE  DatabaseBook' /\ ProgramBook'
  <1>1. todo' = <<>> /\ db' = disk /\ disk' = disk
    BY DEF Over
  <1>2. /\ From \in DBs /\ To \in DBs
        /\ \A d \in DBs : Sound(db[d]) /\ Sound(disk[d]) /\ Behind(disk[d], db[d])
    BY DEF DatabaseBook, DBs
  <1>3. ASSUME NEW p \in copies
        PROVE  CopyBook(p)'
    <2>1. CopyBook(p)
      BY DEF DatabaseBook
    <2>2. \A k \in Kinds : NamesOf(disk[To], k, p.new) \subseteq NamesOf(db[To], k, p.new)
      <3>1. \A e \in disk[To].entries :
                /\ e \in db[To].entries
                /\ e.kind \in Kinds
                /\ disk[To].names[e.kind][e.name].name = db[To].names[e.kind][e.name].name
        <4>1. \A e \in disk[To].entries : e.kind \in Kinds
          BY <1>2 DEF Sound, Tables, Entries
        <4> QED
          BY <1>2, <4>1 DEF Behind, NamesKept, Sound, Resolved
      <3> QED
        BY <3>1, FewerNames
    <2>3. /\ disk[From].test = db[From].test /\ disk[To].test = db[To].test
          /\ disk[From].client = db[From].client /\ disk[To].client = db[To].client
          /\ disk[From].testrun = db[From].testrun /\ disk[To].testrun = db[To].testrun
          /\ disk[From].testclassinfo = db[From].testclassinfo
          /\ disk[To].testclassinfo = db[To].testclassinfo
      BY <1>2 DEF Behind
    <2>4. \A c : TypeID(disk[To], c) = TypeID(db[To], c)
      BY <2>3 DEF TypeID
    <2>5. TypeName(disk[From], p.old) = TypeName(db[From], p.old)
      BY <2>3 DEF TypeName
    <2>6. \A r : ClientOfRun(r)' = ClientOfRun(r)
      BY <1>1, <2>3 DEF ClientOfRun
    <2> QED
      BY <1>1, <2>1, <2>2, <2>3, <2>4, <2>5, <2>6 DEF CopyBook
  <1>4. DatabaseBook'
    <2>1. \A d \in DBs : Sound(db[d])' /\ Sound(disk[d])' /\ Behind(disk[d], db[d])'
      BY <1>1, <1>2 DEF Sound, Resolved, Behind, NamesKept
    <2> QED
      BY <1>1, <1>3, <2>1 DEF DatabaseBook
  <1>5. ProgramBook'
    <2>1. <<>> \in Seq(Tasks) /\ DOMAIN <<>> = {}
      BY EmptySeq
    <2>2. Recording'
      BY <1>1, <2>1 DEF Recording
    <2> QED
      BY <1>1, <2>1, <2>2 DEF ProgramBook
  <1> QED
    BY <1>4, <1>5

-----------------------------------------------------------------------------
(* The merge.                                                              *)

\* What MergeOnlyAdds says of a step.
OnlyAdds ==
    /\ disk'[From] = disk[From]
    /\ disk[To].entries \subseteq disk'[To].entries
    /\ \A i \in DOMAIN disk[To].test : disk'[To].test[i] = disk[To].test[i]

\* The statement that a merge is at; it writes to the destination.
LEMMA MergeHead ==
    ASSUME DatabaseBook, ProgramBook, NEW op \in MergeOps, Task(op)
    PROVE  /\ Merging /\ todo # <<>> /\ todo[1].op = op /\ Head(todo) = todo[1]
           /\ MergeReady(todo[1]) /\ todo[1] \in Tasks
           /\ db[From] = disk[From]
           /\ op # "mergeDone" => Len(todo) > 1
  <1>1. todo \in Seq(Tasks) /\ todo # <<>> /\ Head(todo) = todo[1] /\ todo[1].op = op
    BY DEF ProgramBook, Task
  <1>2. /\ 1 \in DOMAIN todo /\ todo[1] \in Tasks
        /\ Len(todo) \in Nat /\ Len(todo) # 0 /\ DOMAIN todo = 1..Len(todo)
    <2>1. Len(todo) \in Nat /\ Len(todo) # 0 /\ DOMAIN todo = 1..Len(todo)
      BY <1>1, EmptySeq, LenProperties
    <2>2. 1 \in 1..Len(todo)
      BY <2>1
    <2> QED
      BY <1>1, <2>1, <2>2, ElementOfSeq
  <1>3. Merging
    <2>1. ~Recording
      BY <1>1, <1>2 DEF Recording, RecordingTask, MergeOps
    <2> QED
      BY <2>1 DEF ProgramBook
  <1>4. MergeReady(todo[1])
    BY <1>2, <1>3 DEF Merging
  <1>5. db[From] = disk[From]
    <2>1. todo[1].db # From
      BY <1>4 DEF MergeReady, From, To
    <2> QED
      BY <2>1 DEF ProgramBook, DBs
  <1>6. op # "mergeDone" => Len(todo) > 1
    <2>1. todo[Len(todo)].op = "mergeDone"
      BY <1>1, <1>3 DEF Merging
    <2> QED
      BY <1>1, <1>2, <2>1
  <1> QED
    BY <1>1, <1>2, <1>3, <1>4, <1>5, <1>6

\* The run that the merge is at stays that run.
LEMMA RunStays ==
    ASSUME DatabaseBook, NEW r \in DOMAIN db[From].testrun, RunIs(r),
           db'[From] = db[From], Grows(db[To], db'[To]),
           Len(db'[To].testrun) = Len(db[To].testrun)
    PROVE  RunIs(r)'
  <1> DEFINE n == Len(db[To].testrun)
  <1>1. Sound(db[To]) /\ db[To] \in Tables
    BY DEF DatabaseBook, DBs, Sound
  <1>2. n # 0 /\ n \in DOMAIN db[To].testrun
    BY <1>1, SeqRows DEF RunIs
  <1>3. db[To].testrun[n].client \in DOMAIN db[To].client
    BY <1>1, <1>2 DEF Sound, Resolved
  <1>4. db'[To].client[db'[To].testrun[n].client] = db[To].client[db[To].testrun[n].client]
    <2> HIDE DEF n
    <2> QED
      BY <1>2, <1>3 DEF Grows
  <1>5. ClientOfRun(r)' = ClientOfRun(r)
    BY DEF ClientOfRun
  <1> QED
    BY <1>2, <1>4, <1>5 DEF RunIs

\* Classes that are there stay there.
LEMMA ClassesStay ==
    ASSUME NEW r, ClassesThere(r), db'[From] = db[From], Grows(db[To], db'[To])
    PROVE  ClassesThere(r)'
  <1>1. TestTypeUsed(r)' = TestTypeUsed(r)
    BY DEF TestTypeUsed
  <1> QED
    BY <1>1 DEF ClassesThere, Grows, HasClass

\* After a statement of a merge, which may have others done first.
LEMMA MergingStays ==
    ASSUME DatabaseBook, ProgramBook, Merging, todo # <<>>, todo[1].op # "mergeDone",
           NEW P \in Seq(Tasks), todo' = P \o Tail(todo),
           db'[From] = db[From], disk'[From] = disk[From], Grows(db[To], db'[To]),
           todo[1].op \in {"mergeClass", "mergeArguments", "mergeExtraInfo"} =>
              Len(db'[To].testrun) = Len(db[To].testrun),
           todo[1].op = "mergeClass" =>
              \A q : q # todo[1].arg /\ HasClass(db'[To], q) => HasClass(db[To], q),
           \A j \in 1..Len(P) : MergeReady(P[j])',
           \A j \in 1..Len(P) : \A k \in 1..(j - 1) : Before(P[k], P[j]),
           \/ P = <<>>
           \/ todo[1].op \notin {"mergeClass", "mergeArguments", "mergeExtraInfo"}
           \/ /\ todo[1].op = "mergeClass" /\ todo[1].arg # Root
              /\ \A j \in 1..Len(P) : P[j].op = "mergeClass"
    PROVE  ProgramBook'
  <1> DEFINE n == Len(P)
  <1>0. todo \in Seq(Tasks)
    BY DEF ProgramBook
  <1>1. /\ todo' \in Seq(Tasks)
        /\ n \in Nat /\ Len(todo) \in Nat \ {0}
        /\ Len(todo') = n + Len(todo) - 1
        /\ \A j \in 1..n : todo'[j] = P[j]
        /\ \A i \in 2..Len(todo) : todo'[n + i - 1] = todo[i]
        /\ DOMAIN todo = 1..Len(todo) /\ DOMAIN todo' = 1..Len(todo')
    BY <1>0, PushIs, LenProperties
  <1> HIDE DEF n
  <1>2. \A i \in 2..Len(todo) : /\ i \in DOMAIN todo /\ 1 \in 1..(i - 1)
                                /\ \A j \in 2..(i - 1) : j \in 1..(i - 1)
    BY <1>1
  <1>3. /\ \A i \in 2..Len(todo) : MergeReady(todo[i]) /\ Before(todo[1], todo[i])
        /\ \A i \in 2..Len(todo) : \A j \in 2..(i - 1) : Before(todo[j], todo[i])
        /\ todo[Len(todo)].op = "mergeDone"
    BY <1>2 DEF Merging
  <1>4. ASSUME NEW i \in 2..Len(todo), NEW s, s = todo[i]
        PROVE  MergeReady(s)'
    <2>3. MergeReady(s) /\ Before(todo[1], s)
      BY <1>3, <1>4
    <2>4. s.op \in MergeOps /\ todo[1].op \in Under(s.op)
      BY <2>3 DEF MergeReady, Before
    <2>5. /\ s.op \notin {"mergeRun", "mergeRunEnd", "mergeArguments"}
          /\ s.op \in {"mergeClasses", "mergeClass"} => todo[1].op = "mergeClass"
          /\ s.op = "mergeTests" => todo[1].op \in {"mergeArguments", "mergeExtraInfo"}
      BY <2>4 DEF Under, MergeOps
    <2>6. s.op = "mergeClasses" => RunIs(s.arg)'
      <3> HAVE s.op = "mergeClasses"
      <3>1. s.arg \in DOMAIN db[From].testrun /\ RunIs(s.arg)
        BY <2>3 DEF MergeReady
      <3> QED
        BY <2>5, <3>1, RunStays
    <2>7. s.op = "mergeClass" => ~HasClass(db'[To], s.arg)
      <3> HAVE s.op = "mergeClass"
      <3>1. ~HasClass(db[To], s.arg)
        BY <2>3 DEF MergeReady
      <3>2. todo[1].op = "mergeClass" /\ todo[1].arg = Root /\ s.arg # Root
        BY <2>3, <2>5 DEF Before
      <3> QED
        BY <3>1, <3>2
    <2>8. s.op = "mergeTests" => RunIs(s.arg.run)' /\ ClassesThere(s.arg.run)'
      <3> HAVE s.op = "mergeTests"
      <3>1. s.arg.run \in DOMAIN db[From].testrun /\ RunIs(s.arg.run) /\ ClassesThere(s.arg.run)
        BY <2>3 DEF MergeReady
      <3> QED
        BY <2>5, <3>1, RunStays, ClassesStay
    <2> QED
      BY <2>3, <2>5, <2>6, <2>7, <2>8 DEF MergeReady
  <1>5. ASSUME NEW m \in DOMAIN todo'
        PROVE  MergeReady(todo[m])'
    <2>1. CASE m \in 1..n
      <3>1. MergeReady(P[m])' /\ todo'[m] = P[m]
        BY <1>1, <2>1 DEF n
      <3> QED
        BY <3>1 DEF MergeReady
    <2>2. CASE m \notin 1..n
      <3>1. n \in Nat /\ Len(todo) \in Nat \ {0} /\ m \in 1..(n + Len(todo) - 1)
        BY <1>1
      <3>2. PICK i \in 2..Len(todo) : i = m + 1 - n /\ m = n + i - 1
        <4>1. m \in Nat /\ m > n /\ m <= n + Len(todo) - 1
          BY <2>2, <3>1
        <4>2. m + 1 - n \in 2..Len(todo) /\ m = n + (m + 1 - n) - 1
          BY <3>1, <4>1
        <4> QED
          BY <4>2
      <3>3. PICK s : s = todo[i]
        OBVIOUS
      <3>4. MergeReady(s)' /\ todo'[m] = s
        BY <1>1, <1>4, <3>2, <3>3
      <3> QED
        BY <3>4 DEF MergeReady
    <2> QED
      BY <2>1, <2>2
  <1>6. ASSUME NEW j \in 1..n, NEW i \in 2..Len(todo)
        PROVE  Before(P[j], todo[i])
    <2>1. P # <<>>
      BY <1>1 DEF n
    <2>2. MergeReady(P[j])' /\ Before(todo[1], todo[i])
      BY <1>3 DEF n
    <2>3. P[j].op \in MergeOps /\ todo[i].op \in MergeOps
      BY <1>3, <2>2 DEF MergeReady
    <2>4. CASE todo[1].op \notin {"mergeClass", "mergeArguments", "mergeExtraInfo"}
      BY <2>2, <2>3, <2>4 DEF Before, Under, MergeOps
    <2>5. CASE todo[1].op = "mergeClass" /\ todo[1].arg # Root /\ P[j].op = "mergeClass"
      BY <2>2, <2>3, <2>5 DEF Before, Under, MergeOps
    <2> QED
      BY <2>1, <2>4, <2>5 DEF n
  <1>7. ASSUME NEW m \in DOMAIN todo', NEW l \in 1..(m - 1)
        PROVE  Before(todo'[l], todo'[m])
    <2>0. n \in Nat /\ Len(todo) \in Nat \ {0} /\ m \in 1..(n + Len(todo) - 1)
      BY <1>1
    <2>1. CASE m \in 1..n
      <3>1. l \in 1..n
        BY <2>0, <2>1
      <3> QED
        BY <1>1, <2>1, <3>1 DEF n
    <2>2. CASE m \notin 1..n
      <3>1. PICK i \in 2..Len(todo) : i = m + 1 - n /\ m = n + i - 1
        BY <2>0, <2>2
      <3>2. todo'[m] = todo[i]
        BY <1>1, <3>1
      <3>3. CASE l \in 1..n
        <4>1. todo'[l] = P[l]
          BY <1>1, <3>3
        <4> QED
          BY <1>6, <3>2, <3>3, <4>1
      <3>4. CASE l \notin 1..n
        <4>1. PICK j \in 2..(i - 1) : j = l + 1 - n /\ l = n + j - 1
          BY SMTT(30), <2>0, <3>1, <3>4
        <4>2. j \in 2..Len(todo)
          BY <2>0
        <4>3. todo'[l] = todo[j]
          BY <1>1, <4>1, <4>2
        <4> QED
          BY <1>3, <3>2, <4>3
      <3> QED
        BY <3>3, <3>4
    <2> QED
      BY <2>1, <2>2
  <1>8. Len(todo) > 1
    <2>1. Len(todo) # 1
      BY <1>3
    <2> QED
      BY <1>1, <2>1
  <1>9. todo'[Len(todo')].op = "mergeDone" /\ todo' # <<>>
    <2>1. Len(todo) \in 2..Len(todo) /\ Len(todo') = n + Len(todo) - 1 /\ Len(todo') # 0
      BY <1>1, <1>8
    <2>2. todo'[Len(todo')] = todo[Len(todo)]
      BY <1>1, <2>1
    <2>3. todo' # <<>>
      BY <2>1
    <2> QED
      BY <1>3, <2>2, <2>3
  <1>10. Merging'
    <2>1. \A m \in DOMAIN todo' : \A l \in 1..(m - 1) : Before(todo[l], todo[m])'
      BY <1>7 DEF Before
    <2> QED
      BY <1>5, <1>9, <2>1 DEF Merging
  <1>11. \A d \in DBs : db'[d] = disk'[d] \/ (todo' # <<>> /\ todo'[1].db = d)
    <2>1. db[From] = disk[From]
      <3>1. MergeReady(todo[1]) /\ todo[1].db # From
        <4>1. 1 \in DOMAIN todo
          BY <1>1, <1>8
        <4> QED
          BY <4>1 DEF Merging, MergeReady, From, To
      <3> QED
        BY <3>1 DEF ProgramBook, DBs
    <2>2. todo'[1].db = To
      <3>1. 1 \in DOMAIN todo'
        BY <1>1, <1>8
      <3> QED
        BY <1>5, <3>1 DEF MergeReady
    <2> QED
      BY <1>9, <2>1, <2>2 DEF DBs
  <1> QED
    BY <1>1, <1>10, <1>11 DEF ProgramBook

\* A statement that only adds is one that MergeOnlyAdds allows.
LEMMA AddsOnly ==
    ASSUME DatabaseBook, NEW tables, NEW more, NEW own, Adds(To, tables, more, own),
           own = 0 \/ more.test = db[To].test
    PROVE  OnlyAdds
  <1>1. To \in DBs /\ From \in DBs /\ From # To
    BY DEF DBs, From, To
  <1>2. disk'[To] = tables /\ disk'[From] = disk[From]
    BY <1>1, AddsTypes
  <1>3. /\ disk[To].test = db[To].test /\ tables.test = more.test
        /\ disk[To].entries \subseteq tables.entries
        /\ \A i \in DOMAIN db[To].test : i # own => more.test[i] = db[To].test[i]
    BY <1>1 DEF DatabaseBook, Behind, Adds, More
  <1>4. 0 \notin DOMAIN db[To].test
    <2>1. DOMAIN db[To].test = 1..Len(db[To].test)
      BY <1>1, SeqRows DEF DatabaseBook
    <2> QED
      BY <2>1
  <1>5. \A i \in DOMAIN disk[To].test : disk'[To].test[i] = disk[To].test[i]
    BY <1>2, <1>3, <1>4
  <1> QED
    BY <1>2, <1>3, <1>5 DEF OnlyAdds

\* A statement of a merge keeps the books, if those that it has done next are ready.
LEMMA AfterMerge ==
    ASSUME DatabaseBook, ProgramBook, Merging, todo # <<>>, todo[1].op # "mergeDone",
           NEW tables, NEW more, Adds(To, tables, more, 0), UNCHANGED copies,
           NEW P \in Seq(Tasks), todo' = P \o Tail(todo),
           todo[1].op \in {"mergeClass", "mergeArguments", "mergeExtraInfo"} =>
              Len(more.testrun) = Len(db[To].testrun),
           todo[1].op = "mergeClass" =>
              \A q : q # todo[1].arg /\ HasClass(more, q) => HasClass(db[To], q),
           \A j \in 1..Len(P) : MergeReady(P[j])',
           \A j \in 1..Len(P) : \A k \in 1..(j - 1) : Before(P[k], P[j]),
           \/ P = <<>>
           \/ todo[1].op \notin {"mergeClass", "mergeArguments", "mergeExtraInfo"}
           \/ /\ todo[1].op = "mergeClass" /\ todo[1].arg # Root
              /\ \A j \in 1..Len(P) : P[j].op = "mergeClass"
    PROVE  DatabaseBook' /\ ProgramBook' /\ OnlyAdds
  <1>1. To \in DBs /\ From \in DBs /\ From # To
    BY DEF DBs, From, To
  <1>2. DatabaseBook'
    BY <1>1, AddsKeepsDatabases DEF NotCopied
  <1>3. OnlyAdds
    BY AddsOnly
  <1>4. db'[To] = more /\ db'[From] = db[From] /\ disk'[From] = disk[From]
    BY <1>1, AddsTypes
  <1>5. Grows(db[To], db'[To])
    BY <1>4 DEF Adds, More
  <1>6. ProgramBook'
    BY <1>4, <1>5, MergingStays
  <1> QED
    BY <1>2, <1>3, <1>6

\* The case of nothing else to be done first, and that of one statement.
LEMMA AfterMergeDone ==
    ASSUME DatabaseBook, ProgramBook, Merging, todo # <<>>, todo[1].op # "mergeDone",
           NEW tables, NEW more, Adds(To, tables, more, 0), UNCHANGED copies,
           todo' = Tail(todo),
           todo[1].op \in {"mergeClass", "mergeArguments", "mergeExtraInfo"} =>
              Len(more.testrun) = Len(db[To].testrun),
           todo[1].op = "mergeClass" =>
              \A q : q # todo[1].arg /\ HasClass(more, q) => HasClass(db[To], q)
    PROVE  DatabaseBook' /\ ProgramBook' /\ OnlyAdds
  <1>1. <<>> \in Seq(Tasks) /\ todo' = <<>> \o Tail(todo) /\ Len(<<>>) = 0
    <2>1. Tail(todo) \in Seq(Tasks)
      BY HeadTailProperties DEF ProgramBook
    <2> QED
      BY <2>1, ConcatEmptySeq, EmptySeq
  <1>2. \A j \in 1..Len(<<>>) : FALSE
    BY <1>1
  <1> QED
    BY <1>1, <1>2, AfterMerge

LEMMA AfterMergeOne ==
    ASSUME DatabaseBook, ProgramBook, Merging, todo # <<>>,
           todo[1].op \notin {"mergeDone", "mergeClass", "mergeArguments", "mergeExtraInfo"},
           NEW tables, NEW more, Adds(To, tables, more, 0), UNCHANGED copies,
           NEW t \in Tasks, todo' = <<t>> \o Tail(todo), MergeReady(t)'
    PROVE  DatabaseBook' /\ ProgramBook' /\ OnlyAdds
  <1> DEFINE P == <<t>>
  <1>1. P \in Seq(Tasks) /\ Len(P) = 1 /\ P[1] = t
    OBVIOUS
  <1>2. todo' = P \o Tail(todo)
    OBVIOUS
  <1> HIDE DEF P
  <1>3. \A j \in 1..Len(P) : MergeReady(P[j])'
    <2> TAKE j \in 1..Len(P)
    <2>1. P[j] = t
      BY <1>1
    <2> QED
      BY <2>1 DEF MergeReady
  <1>4. \A j \in 1..Len(P) : \A k \in 1..(j - 1) : Before(P[k], P[j])
    BY <1>1
  <1> QED
    BY <1>1, <1>2, <1>3, <1>4, AfterMerge

\* The client of a run of the origin is there.
LEMMA ClientOfRunIs ==
    ASSUME DatabaseBook, NEW r \in DOMAIN db[From].testrun
    PROVE  ClientOfRun(r) \in Clients
  <1>1. Sound(db[From])
    BY DEF DatabaseBook, DBs
  <1>2. db[From].testrun[r].client \in DOMAIN db[From].client
    BY <1>1 DEF Sound, Resolved
  <1> QED
    BY <1>1, <1>2, SeqRows DEF ClientOfRun, Sound

\* The statements of a merge, from here to MergeTestStays, keep the books and only add.
LEMMA MergeClientStays ==
    ASSUME DatabaseBook, ProgramBook, NEW r, r = todo[1].arg, MergeClient(r)
    PROVE  DatabaseBook' /\ ProgramBook' /\ OnlyAdds
  <1> DEFINE u == ClientOfRun(r)
             w == WithClient(db[To], u)
             t == ToMerge("mergeRun", r)
  <1>1. /\ Merging /\ todo # <<>> /\ todo[1].op = "mergeClient" /\ MergeReady(todo[1])
    BY MergeHead DEF MergeClient, MergeOps
  <1>2. r \in DOMAIN db[From].testrun
    BY <1>1 DEF MergeReady
  <1>3. /\ disk' = [disk EXCEPT ![To] = w] /\ db' = [db EXCEPT ![To] = w]
        /\ todo' = <<t>> \o Tail(todo) /\ UNCHANGED copies
    BY DEF MergeClient, Step, Unmerged
  <1>4. Sound(db[To]) /\ To \in DBs /\ u \in Clients
    BY <1>2, ClientOfRunIs DEF DatabaseBook, DBs
  <1> HIDE DEF u
  <1>5. Sound(w) /\ More(db[To], w, 0) /\ ClientID(w, u) # 0
    BY <1>4, WithClientMore
  <1> HIDE DEF w
  <1>6. Adds(To, w, w, 0)
    BY <1>3, <1>4, <1>5, CommitAdds
  <1>7. db'[To] = w /\ db'[From] = db[From]
    BY <1>4, <1>6, AddsTypes DEF DBs, From, To
  <1>8. t \in Tasks /\ t.op = "mergeRun" /\ t.arg = r /\ t.db = To
    <2>1. r \in Args
      <3>1. r \in Nat
        BY <1>2, SeqRows DEF DatabaseBook, DBs
      <3> QED
        BY <3>1 DEF Args
    <2> QED
      BY <1>4, <2>1, TaskIs DEF ToMerge, Ops, MergeOps
  <1> HIDE DEF t
  <1>9. MergeReady(t)'
    <2>1. ClientOfRun(r)' = u
      BY <1>7 DEF ClientOfRun, u
    <2>2. ClientID(db'[To], ClientOfRun(r)') # 0
      BY <1>5, <1>7, <2>1
    <2>3. r \in DOMAIN db'[From].testrun
      BY <1>2, <1>7
    <2> QED
      BY <1>8, <2>2, <2>3 DEF MergeReady, MergeOps
  <1> QED
    BY <1>1, <1>3, <1>6, <1>8, <1>9, AfterMergeOne

LEMMA MergeRunStays ==
    ASSUME DatabaseBook, ProgramBook, NEW r, r = todo[1].arg, MergeRun(r)
    PROVE  DatabaseBook' /\ ProgramBook' /\ OnlyAdds
  <1> DEFINE u == ClientOfRun(r)
             w == WithRun(db[To], u)
             t == ToMerge("mergeRunEnd", r)
  <1>1. /\ Merging /\ todo # <<>> /\ todo[1].op = "mergeRun" /\ MergeReady(todo[1])
    BY MergeHead DEF MergeRun, MergeOps
  <1>2. r \in DOMAIN db[From].testrun /\ ClientID(db[To], u) # 0
    BY <1>1 DEF MergeReady
  <1>3. /\ disk' = [disk EXCEPT ![To] = w] /\ db' = [db EXCEPT ![To] = w]
        /\ todo' = <<t>> \o Tail(todo) /\ UNCHANGED copies
    BY DEF MergeRun, Inserted, Step, Unmerged
  <1>4. Sound(db[To]) /\ To \in DBs
    BY DEF DatabaseBook, DBs
  <1> HIDE DEF u
  <1>5. /\ Sound(w) /\ More(db[To], w, 0)
        /\ Len(w.testrun) # 0 /\ w.client[w.testrun[Len(w.testrun)].client] = u
    BY <1>2, <1>4, WithRunMore
  <1> HIDE DEF w
  <1>6. Adds(To, w, w, 0)
    BY <1>3, <1>4, <1>5, CommitAdds
  <1>7. db'[To] = w /\ db'[From] = db[From]
    BY <1>4, <1>6, AddsTypes DEF DBs, From, To
  <1>8. t \in Tasks /\ t.op = "mergeRunEnd" /\ t.arg = r /\ t.db = To
    <2>1. r \in Args
      <3>1. r \in Nat
        BY <1>2, SeqRows DEF DatabaseBook, DBs
      <3> QED
        BY <3>1 DEF Args
    <2> QED
      BY <1>4, <2>1, TaskIs DEF ToMerge, Ops, MergeOps
  <1> HIDE DEF t
  <1>9. MergeReady(t)'
    <2>1. ClientOfRun(r)' = u
      BY <1>7 DEF ClientOfRun, u
    <2>2. RunIs(r)'
      BY <1>5, <1>7, <2>1 DEF RunIs
    <2>3. r \in DOMAIN db'[From].testrun
      BY <1>2, <1>7
    <2> QED
      BY <1>8, <2>2, <2>3 DEF MergeReady, MergeOps
  <1> QED
    BY <1>1, <1>3, <1>6, <1>8, <1>9, AfterMergeOne

LEMMA MergeRunEndStays ==
    ASSUME DatabaseBook, ProgramBook, NEW r, r = todo[1].arg, MergeRunEnd(r)
    PROVE  DatabaseBook' /\ ProgramBook' /\ OnlyAdds
  <1> DEFINE ended == db[From].testrun[r].ended
             w == WithRunEnded(db[To], ended)
             t == ToMerge("mergeClasses", r)
  <1>1. /\ Merging /\ todo # <<>> /\ todo[1].op = "mergeRunEnd" /\ MergeReady(todo[1])
    BY MergeHead DEF MergeRunEnd, MergeOps
  <1>2. r \in DOMAIN db[From].testrun /\ RunIs(r)
    BY <1>1 DEF MergeReady
  <1>3. /\ disk' = [disk EXCEPT ![To] = w] /\ db' = [db EXCEPT ![To] = w]
        /\ todo' = <<t>> \o Tail(todo) /\ UNCHANGED copies
    BY DEF MergeRunEnd, Step, Unmerged
  <1>4. Sound(db[To]) /\ To \in DBs /\ ended \in BOOLEAN /\ r \in Nat
    BY <1>2, SeqRows DEF DatabaseBook, DBs, Runs
  <1> HIDE DEF ended
  <1>5. Sound(w) /\ More(db[To], w, 0) /\ Len(w.testrun) = Len(db[To].testrun)
    BY <1>4, WithRunEndedMore
  <1> HIDE DEF w
  <1>6. Adds(To, w, w, 0)
    BY <1>3, <1>4, <1>5, CommitAdds
  <1>7. db'[To] = w /\ db'[From] = db[From]
    BY <1>4, <1>6, AddsTypes DEF DBs, From, To
  <1>8. t \in Tasks /\ t.op = "mergeClasses" /\ t.arg = r /\ t.db = To
    <2>1. r \in Args
      BY <1>4 DEF Args
    <2> QED
      BY <1>4, <2>1, TaskIs DEF ToMerge, Ops, MergeOps
  <1> HIDE DEF t
  <1>9. MergeReady(t)'
    <2>1. Grows(db[To], db'[To])
      BY <1>5, <1>7 DEF More
    <2>2. RunIs(r)'
      BY <1>2, <1>5, <1>7, <2>1, RunStays
    <2>3. r \in DOMAIN db'[From].testrun
      BY <1>2, <1>7
    <2> QED
      BY <1>8, <2>2, <2>3 DEF MergeReady, MergeOps
  <1> QED
    BY <1>1, <1>3, <1>6, <1>8, <1>9, AfterMergeOne

\* The classes of the tests of a run.
LEMMA TypesUsed ==
    ASSUME DatabaseBook, NEW r
    PROVE  TestTypeUsed(r) \subseteq Classes
  <1> SUFFICES ASSUME NEW c \in TestTypeUsed(r)
               PROVE  c \in Classes
    OBVIOUS
  <1>1. PICK i \in DOMAIN db[From].test : c = db[From].testclassinfo[db[From].test[i].type].type
    BY DEF TestTypeUsed, Range
  <1>2. Sound(db[From])
    BY DEF DatabaseBook, DBs
  <1>3. db[From].test[i].type \in DOMAIN db[From].testclassinfo
    BY <1>2 DEF Sound, Resolved
  <1>4. db[From].testclassinfo[db[From].test[i].type] \in ClassRows
    BY <1>2, <1>3, SeqRows DEF Sound
  <1> QED
    BY <1>1, <1>4 DEF ClassRows

\* Something that is pushed before the rest, of which the head is a part.
LEMMA PushTwo ==
    ASSUME todo \in Seq(Tasks), todo # <<>>, NEW t \in Tasks
    PROVE  /\ <<t>> \o todo = <<t, todo[1]>> \o Tail(todo)
           /\ <<t, todo[1]>> \in Seq(Tasks)
  <1>1. /\ Tail(todo) \in Seq(Tasks) /\ Len(Tail(todo)) = Len(todo) - 1
        /\ \A i \in 1..Len(Tail(todo)) : Tail(todo)[i] = todo[i + 1]
    BY HeadTailProperties
  <1>2. todo[1] \in Tasks /\ Len(todo) \in Nat \ {0}
    <2>1. Len(todo) \in Nat \ {0}
      BY LenProperties, EmptySeq
    <2> QED
      BY <2>1, ElementOfSeq
  <1> DEFINE A == <<t>>
             B == <<t, todo[1]>>
  <1>3. A \in Seq(Tasks) /\ Len(A) = 1 /\ A[1] = t
    OBVIOUS
  <1>4. B \in Seq(Tasks) /\ Len(B) = 2 /\ B[1] = t /\ B[2] = todo[1]
    BY <1>2
  <1> HIDE DEF A, B
  <1>5. /\ A \o todo \in Seq(Tasks) /\ Len(A \o todo) = 1 + Len(todo)
        /\ \A i \in 1..(1 + Len(todo)) : (A \o todo)[i] = IF i <= 1 THEN A[i] ELSE todo[i - 1]
    <2>1. /\ A \o todo \in Seq(Tasks) /\ Len(A \o todo) = Len(A) + Len(todo)
          /\ \A i \in 1..(Len(A) + Len(todo)) :
              (A \o todo)[i] = IF i <= Len(A) THEN A[i] ELSE todo[i - Len(A)]
      BY <1>3, ConcatProperties
    <2> QED
      BY <1>3, <2>1
  <1>6. /\ B \o Tail(todo) \in Seq(Tasks) /\ Len(B \o Tail(todo)) = 1 + Len(todo)
        /\ \A i \in 1..(1 + Len(todo)) :
              (B \o Tail(todo))[i] = IF i <= 2 THEN B[i] ELSE Tail(todo)[i - 2]
    <2>1. /\ B \o Tail(todo) \in Seq(Tasks) /\ Len(B \o Tail(todo)) = Len(B) + Len(Tail(todo))
          /\ \A i \in 1..(Len(B) + Len(Tail(todo))) :
              (B \o Tail(todo))[i] = IF i <= Len(B) THEN B[i] ELSE Tail(todo)[i - Len(B)]
      BY <1>1, <1>4, ConcatProperties
    <2> QED
      BY <1>1, <1>2, <1>4, <2>1
  <1>7. ASSUME NEW i \in 1..(1 + Len(todo))
        PROVE  (A \o todo)[i] = (B \o Tail(todo))[i]
    <2>1. CASE i = 1
      BY <1>3, <1>4, <1>5, <1>6, <2>1
    <2>2. CASE i = 2
      BY <1>3, <1>4, <1>5, <1>6, <2>2
    <2>3. CASE i > 2
      <3>1. i - 2 \in 1..Len(Tail(todo)) /\ i - 2 + 1 = i - 1
        BY <1>1, <1>2, <2>3
      <3>2. Tail(todo)[i - 2] = todo[i - 1]
        BY <1>1, <3>1
      <3> QED
        BY <1>2, <1>5, <1>6, <2>3, <3>2
    <2>4. i = 1 \/ i = 2 \/ i > 2
      BY <1>2
    <2> QED
      BY <2>1, <2>2, <2>3, <2>4
  <1>8. A \o todo = B \o Tail(todo)
    BY <1>5, <1>6, <1>7, SeqEqual
  <1> QED
    BY <1>4, <1>8 DEF A, B

\* The case of a class that is to be done before the statement at hand.
LEMMA AfterMergeTwo ==
    ASSUME DatabaseBook, ProgramBook, Merging, todo # <<>>,
           UNCHANGED <<db, disk, copies>>, NEW t \in Tasks, t.op = "mergeClass",
           todo' = <<t>> \o todo, NEW s, s = todo[1], s.op \in {"mergeClasses", "mergeClass"},
           s.op = "mergeClass" => s.arg # Root,
           MergeReady(t)', MergeReady(s)', Before(t, s)
    PROVE  DatabaseBook' /\ ProgramBook' /\ OnlyAdds
  <1>1. To \in DBs
    BY DEF DBs
  <1>2. Adds(To, disk[To], db[To], 0)
    BY <1>1, NothingAdds
  <1>3. <<t>> \o todo = <<t, s>> \o Tail(todo) /\ <<t, s>> \in Seq(Tasks)
    BY PushTwo DEF ProgramBook
  <1>4. PICK P : P = <<t, s>>
    OBVIOUS
  <1>5. /\ P \in Seq(Tasks) /\ todo' = P \o Tail(todo)
        /\ Len(P) = 2 /\ P[1] = t /\ P[2] = s
    BY <1>3, <1>4
  <1>6. ASSUME NEW j \in 1..Len(P)
        PROVE  MergeReady(P[j])'
    <2>1. P[j] = t \/ P[j] = s
      BY <1>5
    <2> QED
      BY <2>1
  <1>7. ASSUME NEW j \in 1..Len(P), NEW k \in 1..(j - 1)
        PROVE  Before(P[k], P[j])
    <2>1. j = 2 /\ k = 1
      BY <1>5
    <2> QED
      BY <1>5, <2>1
  <1>8. s.op = "mergeClass" => \A j \in 1..Len(P) : P[j].op = "mergeClass"
    BY <1>5
  <1> QED
    BY <1>2, <1>5, <1>6, <1>7, <1>8, AfterMerge

LEMMA MergeClassesStays ==
    ASSUME DatabaseBook, ProgramBook, NEW r, r = todo[1].arg, MergeClasses(r)
    PROVE  DatabaseBook' /\ ProgramBook' /\ OnlyAdds
  <1> DEFINE missing == {c \in TestTypeUsed(r) : ~HasClass(db[To], c)}
  <1>1. /\ Merging /\ todo # <<>> /\ todo[1].op = "mergeClasses" /\ MergeReady(todo[1])
        /\ todo[1] \in Tasks
    BY MergeHead DEF MergeClasses, MergeOps
  <1>2. r \in DOMAIN db[From].testrun /\ RunIs(r)
    BY <1>1 DEF MergeReady
  <1>3. UNCHANGED <<db, disk, copies>>
    BY DEF MergeClasses, Consider, Unmerged
  <1>4. To \in DBs /\ r \in Nat /\ Adds(To, disk[To], db[To], 0)
    BY <1>2, <1>3, SeqRows, NothingAdds DEF DatabaseBook, DBs
  <1>5. RunIs(r)'
    BY <1>2, <1>3 DEF RunIs, ClientOfRun
  <1>6. CASE /\ missing = {}
             /\ Consider(<<ToMerge("mergeTests", [run |-> r, after |-> 0])>> \o Tail(todo))
    <2> DEFINE t == ToMerge("mergeTests", [run |-> r, after |-> 0])
    <2>1. todo' = <<t>> \o Tail(todo)
      BY <1>6 DEF Consider
    <2>2. /\ t \in Tasks /\ t.op = "mergeTests" /\ t.db = To
          /\ t.arg = [run |-> r, after |-> 0]
      <3>1. [run |-> r, after |-> 0] \in Args
        BY <1>4 DEF Args
      <3> QED
        BY <1>4, <3>1, TaskIs DEF ToMerge, Ops, MergeOps
    <2> HIDE DEF t
    <2>3. ClassesThere(r)'
      BY SMTT(30), <1>3, <1>6 DEF ClassesThere, TestTypeUsed, HasClass, TypeID
    <2>4. MergeReady(t)'
      BY <1>2, <1>3, <1>5, <2>2, <2>3 DEF MergeReady, MergeOps
    <2> QED
      BY <1>1, <1>3, <1>4, <2>1, <2>2, <2>4, AfterMergeOne
  <1>7. ASSUME NEW c \in missing, Consider(<<ToMerge("mergeClass", c)>> \o todo)
        PROVE  DatabaseBook' /\ ProgramBook' /\ OnlyAdds
    <2> DEFINE t == ToMerge("mergeClass", c)
    <2>1. c \in Classes /\ ~HasClass(db[To], c)
      BY TypesUsed
    <2>2. t \in Tasks /\ t.op = "mergeClass" /\ t.arg = c /\ t.db = To
      <3>1. c \in Args
        BY <2>1 DEF Args
      <3> QED
        BY <1>4, <3>1, TaskIs DEF ToMerge, Ops, MergeOps
    <2>3. todo' = <<t>> \o todo
      BY <1>7 DEF Consider
    <2> HIDE DEF t
    <2>4. ~HasClass(db[To], c)'
      BY <1>3, <2>1 DEF HasClass, TypeID
    <2>5. MergeReady(t)'
      BY <2>1, <2>2, <2>4 DEF MergeReady, MergeOps
    <2>6. PICK s : s = todo[1]
      OBVIOUS
    <2>7. MergeReady(s)' /\ s.op = "mergeClasses"
      BY <1>1, <1>2, <1>3, <1>5, <2>6 DEF MergeReady, MergeOps
    <2>8. Before(t, s)
      BY <2>2, <2>7 DEF Before, Under
    <2> QED
      BY <1>1, <1>3, <2>2, <2>3, <2>5, <2>6, <2>7, <2>8, AfterMergeTwo
  <1> QED
    BY <1>6, <1>7 DEF MergeClasses

\* What the origin knows of the names of a class is a finite set of names.
LEMMA NamesOfClass ==
    ASSUME NEW t, Sound(t), NEW c, NEW k \in Kinds
    PROVE  ClassNames(t, c)[k] \in SUBSET Names /\ IsFiniteSet(ClassNames(t, c)[k])
  <1> DEFINE f == [i \in 1..Len(t.names[k]) |-> t.names[k][i].name]
             all == {f[i] : i \in 1..Len(t.names[k])}
             here == {r.name : r \in
                 {x \in Range(t.names[k]) : x.container = [by |-> "id", is |-> TypeID(t, c)]}}
  <1>1. /\ Len(t.names[k]) \in Nat /\ DOMAIN t.names[k] = 1..Len(t.names[k])
        /\ \A i \in DOMAIN t.names[k] : t.names[k][i] \in NameRows
    BY SeqRows DEF Sound
  <1>2. ClassNames(t, c)[k] = here
    BY DEF ClassNames
  <1>3. here \subseteq all
    <2> SUFFICES ASSUME NEW n \in here
                 PROVE  n \in all
      OBVIOUS
    <2>1. PICK i \in DOMAIN t.names[k] : n = t.names[k][i].name
      BY DEF Range
    <2> QED
      BY <1>1, <2>1
  <1>4. all \subseteq Names
    BY <1>1 DEF NameRows
  <1>5. IsFiniteSet(all)
    <2>1. IsFiniteSet(1..Len(t.names[k]))
      <3>1. 1 \in Int /\ Len(t.names[k]) \in Int
        BY <1>1
      <3> QED
        BY <3>1, FS_Interval
    <2>2. f \in Surjection(1..Len(t.names[k]), all)
      BY DEF Surjection
    <2> HIDE DEF f, all
    <2> QED
      BY <2>1, <2>2, FS_Surjection
  <1> HIDE DEF here, all
  <1>6. IsFiniteSet(here)
    BY <1>3, <1>5, FS_Subset
  <1> QED
    BY <1>2, <1>3, <1>4, <1>6

\* An end takes nothing from what is committed.
LEMMA OverAdds ==
    ASSUME Over
    PROVE  OnlyAdds
BY DEF Over, OnlyAdds

LEMMA MergeClassStays ==
    ASSUME DatabaseBook, ProgramBook, NEW c, c = todo[1].arg, MergeClass(c)
    PROVE  DatabaseBook' /\ ProgramBook' /\ OnlyAdds
  <1> DEFINE parent == db[From].testclassinfo[TypeID(db[From], c)].parent
             first == parent # NoClass /\ ~HasClass(db[To], parent)
  <1>1. /\ Merging /\ todo # <<>> /\ todo[1].op = "mergeClass" /\ MergeReady(todo[1])
        /\ todo[1] \in Tasks
    BY MergeHead DEF MergeClass, MergeOps
  <1>2. c \in Classes /\ ~HasClass(db[To], c) /\ todo[1].db = To
    BY <1>1 DEF MergeReady
  <1>3. UNCHANGED copies /\ To \in DBs /\ Sound(db[From]) /\ Sound(db[To])
    BY DEF MergeClass, Unmerged, DatabaseBook, DBs
  <1>4. CASE ~HasClass(db[From], c)
    <2>1. Over
      BY <1>4 DEF MergeClass
    <2> QED
      BY <1>3, <2>1, OverStays, OverAdds
  <1>5. HasClass(db[From], c) => [type |-> c, parent |-> parent] \in ClassRows
    <2> HAVE HasClass(db[From], c)
    <2>1. /\ TypeID(db[From], c) \in DOMAIN db[From].testclassinfo
          /\ db[From].testclassinfo[TypeID(db[From], c)].type = c
      BY <1>3, TypeIDIs DEF Sound
    <2>2. db[From].testclassinfo[TypeID(db[From], c)] \in ClassRows
      BY <1>3, <2>1, SeqRows DEF Sound
    <2> QED
      BY <2>1, <2>2 DEF ClassRows
  <1>6. CASE HasClass(db[From], c) /\ first
    <2> DEFINE t == ToMerge("mergeClass", Root)
    <2>1. parent = Root /\ c # Root /\ ~HasClass(db[To], Root)
      BY <1>5, <1>6 DEF ClassRows
    <2>2. todo' = <<t>> \o todo /\ UNCHANGED <<db, disk>>
      BY <1>6, <2>1 DEF MergeClass
    <2>3. t \in Tasks /\ t.op = "mergeClass" /\ t.arg = Root /\ t.db = To /\ Root \in Classes
      <3>1. Root \in Args /\ Root \in Classes
        BY DEF Args, Classes
      <3> QED
        BY <1>3, <3>1, TaskIs DEF ToMerge, Ops, MergeOps
    <2> HIDE DEF t
    <2>4. MergeReady(t)'
      <3>1. ~HasClass(db[To], Root)'
        BY <2>1, <2>2 DEF HasClass, TypeID
      <3> QED
        BY <2>3, <3>1 DEF MergeReady, MergeOps
    <2>5. PICK s : s = todo[1]
      OBVIOUS
    <2>6. MergeReady(s)' /\ s.op = "mergeClass" /\ s.arg # Root
      <3>1. ~HasClass(db[To], c)'
        BY <1>2, <2>2 DEF HasClass, TypeID
      <3>2. s.op = "mergeClass" /\ s.arg = c /\ s.db = To
        BY <1>1, <1>2, <2>5
      <3> QED
        BY <1>2, <2>1, <3>1, <3>2 DEF MergeReady, MergeOps
    <2>7. Before(t, s)
      BY <2>3, <2>6 DEF Before, Under
    <2> QED
      BY <1>1, <1>3, <2>2, <2>3, <2>4, <2>5, <2>6, <2>7, AfterMergeTwo
  <1>7. CASE HasClass(db[From], c) /\ ~first
    <2> DEFINE ns == ClassNames(db[From], c)
               row == ClassRow(db[To], c, parent)
               more == WithClassNames(row, c, ns)
    <2>1. /\ disk' = [disk EXCEPT ![To] = row] /\ db' = [db EXCEPT ![To] = more]
          /\ todo' = Tail(todo)
      <3>1. InsertClass(To, c, parent, ns, Tail(todo))
        BY <1>7 DEF MergeClass
      <3> QED
        BY <3>1 DEF InsertClass, Step
    <2>2. \A k \in Kinds : ns[k] \in SUBSET Names /\ IsFiniteSet(ns[k])
      BY <1>3, NamesOfClass
    <2>3. row = ClassRow(db[To], c, parent) /\ more = WithClassNames(row, c, ns)
      OBVIOUS
    <2>4. [type |-> c, parent |-> parent] \in ClassRows
      BY <1>5, <1>7
    <2> HIDE DEF ns, row, more, parent
    <2>5. Adds(To, row, more, 0)
      BY <1>2, <1>3, <2>1, <2>2, <2>3, <2>4, InsertClassAdds
    <2>6. /\ more.testrun = db[To].testrun
          /\ \A q : q # c /\ HasClass(more, q) => HasClass(db[To], q)
      BY <1>2, <1>3, <2>2, <2>3, <2>4, InsertClassOnly
    <2> QED
      BY <1>1, <1>3, <2>1, <2>5, <2>6, AfterMergeDone
  <1> QED
    BY <1>4, <1>6, <1>7 DEF MergeClass

LEMMA MergeTestsDoneStays ==
    ASSUME DatabaseBook, ProgramBook, NEW at, at = todo[1].arg, MergeTestsDone(at)
    PROVE  DatabaseBook' /\ ProgramBook' /\ OnlyAdds
  <1> DEFINE t == ToMerge("mergeParents", at.run)
  <1>1. /\ Merging /\ todo # <<>> /\ todo[1].op = "mergeTests" /\ MergeReady(todo[1])
    BY MergeHead DEF MergeTestsDone, MergeOps
  <1>2. at.run \in DOMAIN db[From].testrun
    BY <1>1 DEF MergeReady
  <1>3. UNCHANGED <<db, disk, copies>> /\ todo' = <<t>> \o Tail(todo)
    BY DEF MergeTestsDone, Consider, Unmerged
  <1>4. To \in DBs /\ at.run \in Nat /\ Adds(To, disk[To], db[To], 0)
    BY <1>2, <1>3, SeqRows, NothingAdds DEF DatabaseBook, DBs
  <1>5. t \in Tasks /\ t.op = "mergeParents" /\ t.arg = at.run /\ t.db = To
    <2>1. at.run \in Args
      BY <1>4 DEF Args
    <2> QED
      BY <1>4, <2>1, TaskIs DEF ToMerge, Ops, MergeOps
  <1> HIDE DEF t
  <1>6. MergeReady(t)'
    BY <1>2, <1>3, <1>5 DEF MergeReady, MergeOps
  <1> QED
    BY <1>1, <1>3, <1>4, <1>5, <1>6, AfterMergeOne

LEMMA MergeExtraInfoStays ==
    ASSUME DatabaseBook, ProgramBook, NEW i, i = todo[1].arg, MergeExtraInfo(i)
    PROVE  DatabaseBook' /\ ProgramBook' /\ OnlyAdds
  <1>1. Merging /\ todo # <<>> /\ todo[1].op = "mergeExtraInfo"
    BY MergeHead DEF MergeExtraInfo, MergeOps
  <1>2. UNCHANGED copies /\ To \in DBs
    BY DEF MergeExtraInfo, Unmerged, DBs
  <1>3. CASE Over
    BY <1>2, <1>3, OverStays, OverAdds
  <1>4. CASE Skip
    <2>1. todo' = Tail(todo) /\ UNCHANGED <<db, disk>>
      BY <1>4 DEF Skip
    <2>2. Adds(To, disk[To], db[To], 0)
      BY <1>2, <2>1, NothingAdds
    <2> QED
      BY <1>1, <1>2, <2>1, <2>2, AfterMergeDone
  <1> QED
    BY <1>3, <1>4 DEF MergeExtraInfo

\* The parents are those of the rows that were copied, and are there already.
LEMMA MergeParentsStays ==
    ASSUME DatabaseBook, ProgramBook, NEW r, MergeParents(r)
    PROVE  DatabaseBook' /\ ProgramBook' /\ OnlyAdds
  <1> DEFINE current == {p \in copies : db[To].test[p.new].testrun = Len(db[To].testrun)}
             parents(j) == {db[From].test[p.old].parent :
                                p \in {q \in current : q["new"] = j}} \ {0}
             new(j) == IF parents(j) = {} THEN db[To].test[j]
                       ELSE [db[To].test[j] EXCEPT !.parent = CHOOSE p \in parents(j) : TRUE]
  <1>1. Merging /\ todo # <<>> /\ todo[1].op = "mergeParents"
    BY MergeHead DEF MergeParents, Reparent, MergeOps
  <1>2. UNCHANGED copies /\ To \in DBs /\ Sound(db[To]) /\ db[To] \in Tables
    BY DEF MergeParents, Reparent, Unmerged, DBs, DatabaseBook, Sound
  <1>3. ASSUME NEW j \in DOMAIN db[To].test
        PROVE  new(j) = db[To].test[j]
    <2>1. CASE parents(j) = {}
      BY <2>1
    <2>2. CASE parents(j) # {}
      <3> DEFINE x == CHOOSE p \in parents(j) : TRUE
      <3>1. x \in parents(j)
        BY <2>2
      <3>2. PICK q \in copies : q.new = j /\ x = db[From].test[q.old].parent
        BY <3>1
      <3>3. x = db[To].test[j].parent
        BY <3>2 DEF DatabaseBook, CopyBook
      <3>4. db[To].test[j] \in Tests
        BY <1>2, SeqRows
      <3>5. [db[To].test[j] EXCEPT !.parent = x] = db[To].test[j]
        <4> HIDE DEF x
        <4> QED
          BY <3>3, <3>4 DEF Tests
      <3> QED
        BY <2>2, <3>5
    <2> QED
      BY <2>1, <2>2
  <1>4. [j \in DOMAIN db[To].test |-> new(j)] = db[To].test
    <2>1. db[To].test = [j \in DOMAIN db[To].test |-> db[To].test[j]]
      BY <1>2, SeqDef DEF Tables
    <2> HIDE DEF new
    <2> QED
      BY <1>3, <2>1
  <1>5. Commit(To, [db[To] EXCEPT !.test = [j \in DOMAIN db[To].test |-> new(j)]])
    BY <1>2 DEF MergeParents, Reparent, Tables
  <1> HIDE DEF new
  <1>6. [db[To] EXCEPT !.test = db[To].test] = db[To]
    BY <1>2 DEF Tables
  <1>7. Commit(To, db[To])
    BY <1>4, <1>5, <1>6
  <1>8. /\ disk' = [disk EXCEPT ![To] = db[To]] /\ db' = [db EXCEPT ![To] = db[To]]
        /\ todo' = Tail(todo)
    BY <1>7 DEF Commit, Step
  <1>9. Adds(To, db[To], db[To], 0)
    BY <1>2, <1>8, MoreOfSame, CommitAdds
  <1> QED
    BY <1>1, <1>2, <1>8, <1>9, AfterMergeDone

LEMMA MergeDoneStays ==
    ASSUME DatabaseBook, ProgramBook, MergeDone
    PROVE  DatabaseBook' /\ ProgramBook' /\ OnlyAdds
BY OverStays, OverAdds DEF MergeDone

\* The arguments go to the row that was copied last, by their names.
LEMMA MergeArgumentsStays ==
    ASSUME DatabaseBook, ProgramBook, NEW i, i = todo[1].arg, MergeArguments(i)
    PROVE  DatabaseBook' /\ ProgramBook' /\ OnlyAdds
  <1> DEFINE n == Len(db[To].test)
             ns == NamesOf(db[From], "arguments", i)
             w == WithEntries(db[To], "arguments", n, ns)
             c == [old |-> i, new |-> n]
  <1>1. /\ Merging /\ todo # <<>> /\ todo[1].op = "mergeArguments" /\ MergeReady(todo[1])
        /\ db[From] = disk[From]
    BY MergeHead DEF MergeArguments, MergeOps
  <1>2. c \in copies
    BY <1>1 DEF MergeReady
  <1>3. /\ To \in DBs /\ From \in DBs /\ From # To /\ "arguments" \in Kinds
        /\ Sound(db[To]) /\ Sound(disk[To]) /\ Sound(db[From]) /\ Behind(disk[To], db[To])
    BY DEF DBs, From, To, Kinds, DatabaseBook
  <1>4. n \in DOMAIN db[To].test
    <2>1. CopyBook(c)
      BY <1>2 DEF DatabaseBook
    <2> QED
      BY <2>1 DEF CopyBook
  <1>5. /\ disk' = [disk EXCEPT ![To] = disk[To]] /\ db' = [db EXCEPT ![To] = w]
        /\ todo' = Tail(todo) /\ UNCHANGED copies
    BY DEF MergeArguments, Write, Step, Unmerged
  <1>6. /\ Sound(w) /\ More(db[To], w, n)
        /\ w.test = db[To].test /\ w.names = db[To].names /\ w.client = db[To].client
        /\ w.testrun = db[To].testrun /\ w.testclassinfo = db[To].testclassinfo
        /\ \A e \in w.entries :
              e \in db[To].entries
                \/ (e.kind = "arguments" /\ db[To].names["arguments"][e.name].name \in ns)
    BY <1>3, <1>4, WithEntriesMore
  <1> HIDE DEF w, n
  <1>7. Behind(disk[To], w)
    BY <1>3, <1>6 DEF Behind, More, NamesKept
  <1>8. Adds(To, disk[To], w, n)
    <2>1. NamesKept(disk[To], disk[To])
      BY DEF NamesKept
    <2> QED
      BY <1>3, <1>5, <1>6, <1>7, <2>1 DEF Adds
  <1>9. OnlyAdds
    BY <1>6, <1>8, AddsOnly
  <1>10. /\ db' \in [DBs -> Tables] /\ disk' \in [DBs -> Tables]
         /\ db'[To] = w /\ disk'[To] = disk[To] /\ db'[From] = db[From] /\ disk'[From] = disk[From]
         /\ \A e \in DBs : Sound(db[e])' /\ Sound(disk[e])' /\ Behind(disk[e], db[e])'
    BY <1>3, <1>8, AddsTypes
  <1>11. Grows(db[To], db'[To]) /\ Grows(db[From], db'[From])
    BY <1>6, <1>10, MoreOfSame DEF More
  <1>12. ASSUME NEW p \in copies
         PROVE  CopyBook(p)'
    <2>1. p.new = n => p.old = i
      BY <1>2 DEF DatabaseBook
    <2>2. \A k \in Kinds : NamesOf(db'[To], k, p.new)
                  \subseteq NamesOf(db[To], k, p.new)
                                \cup NamesOf(disk[From], k, p.old)
      <3> TAKE k \in Kinds
      <3> SUFFICES ASSUME NEW x \in NamesOf(w, k, p.new)
                   PROVE  x \in NamesOf(db[To], k, p.new) \cup NamesOf(disk[From], k, p.old)
        BY <1>10
      <3>1. PICK e \in w.entries : e.kind = k /\ e.test = p.new /\ x = w.names[k][e.name].name
        BY DEF NamesOf
      <3>2. CASE e \in db[To].entries
        BY <1>6, <3>1, <3>2 DEF NamesOf
      <3>3. CASE e \notin db[To].entries
        <4>1. k = "arguments" /\ x \in ns
          BY <1>6, <3>1, <3>3
        <4>2. e.test = n
          <5>1. CopyBook(p)
            BY DEF DatabaseBook
          <5>2. p.new \in DOMAIN db[To].test
            BY <5>1 DEF CopyBook
          <5> QED
            BY <1>6, <3>1, <3>3, <5>2 DEF More
        <4>3. p.old = i
          BY <2>1, <3>1, <4>2
        <4> QED
          BY <1>1, <4>1, <4>3
      <3> QED
        BY <3>2, <3>3
    <2>3. /\ db'[From].test[p.old] = db[From].test[p.old]
          /\ db'[To].test[p.new] = db[To].test[p.new]
          /\ NamesKept(disk[From], disk'[From]) /\ disk[From].entries \subseteq disk'[From].entries
      BY <1>6, <1>10 DEF NamesKept
    <2> QED
      BY <1>10, <1>11, <2>2, <2>3, CopyStays
  <1>13. DatabaseBook'
    BY <1>5, <1>10, <1>12 DEF DatabaseBook
  <1>14. ProgramBook'
    <2>1. <<>> \in Seq(Tasks) /\ todo' = <<>> \o Tail(todo) /\ Len(<<>>) = 0
      <3>1. Tail(todo) \in Seq(Tasks)
        BY <1>1, HeadTailProperties DEF ProgramBook
      <3> QED
        BY <1>5, <3>1, ConcatEmptySeq, EmptySeq
    <2>2. \A j \in 1..Len(<<>>) : FALSE
      BY <2>1
    <2>3. Len(db'[To].testrun) = Len(db[To].testrun)
      BY <1>6, <1>10
    <2> QED
      BY <1>1, <1>10, <1>11, <2>1, <2>2, <2>3, MergingStays
  <1> QED
    BY <1>9, <1>13, <1>14

\* A row that was not merged yet: the copy is of the same class, in a run of the
\* same client, and has no names.
LEMMA MergeTestStays ==
    ASSUME DatabaseBook, ProgramBook, NEW at, at = todo[1].arg, MergeTest(at)
    PROVE  DatabaseBook' /\ ProgramBook' /\ OnlyAdds
  <1>0. PICK i, n : i = Min(TestsLeft(at)) /\ n = Len(db[To].test) + 1
    OBVIOUS
  <1> DEFINE old == db[From].test[i]
             c == TypeName(db[From], i)
             row == [old EXCEPT !.testrun = Len(db[To].testrun), !.type = TypeID(db[To], c)]
             w == WithTest(db[To], row)
             new == [old |-> i, new |-> n]
             P == <<ToMerge("mergeArguments", i), ToMerge("mergeExtraInfo", i),
                    ToMerge("mergeTests", [at EXCEPT !.after = i])>>
  <1>1. /\ Merging /\ todo # <<>> /\ todo[1].op = "mergeTests" /\ MergeReady(todo[1])
        /\ db[From] = disk[From]
    BY MergeHead DEF MergeTest, MergeOps
  <1>2. /\ at \in [run : DOMAIN db[From].testrun, after : Nat]
        /\ RunIs(at.run) /\ ClassesThere(at.run)
    BY <1>1 DEF MergeReady
  <1>3. /\ To \in DBs /\ From \in DBs /\ From # To
        /\ Sound(db[To]) /\ Sound(db[From])
        /\ db[To] \in Tables /\ db[From] \in Tables
    BY DEF DBs, From, To, DatabaseBook, Sound
  <1>4. disk' = [disk EXCEPT ![To] = w] /\ db' = [db EXCEPT ![To] = w]
        /\ todo' = P \o Tail(todo) /\ copies' = copies \cup {new}
    BY <1>0 DEF MergeTest, Copied, Step
  <1>5. /\ i \in DOMAIN db[From].test /\ i \in Nat
        /\ db[From].test[i].testrun = at.run /\ ~db[From].test[i].ismonitor
    <2>1. TestsLeft(at) # {}
      BY DEF MergeTest
    <2>2. DOMAIN db[From].test = 1..Len(db[From].test)
      BY <1>3, SeqRows
    <2>3. TestsLeft(at) \in SUBSET Nat
      BY <2>2 DEF TestsLeft, TestsForTestRun
    <2>4. i \in TestsLeft(at)
      BY <1>0, <2>1, <2>3, LeastIs
    <2> QED
      BY <2>2, <2>4 DEF TestsLeft, TestsForTestRun
  <1>6. old \in Tests /\ old.testrun = at.run /\ old.type \in DOMAIN db[From].testclassinfo
    BY <1>3, <1>5, SeqRows DEF Sound, Resolved
  <1>7. c \in TestTypeUsed(at.run)
    BY <1>5 DEF TestTypeUsed, TypeName, Range
  <1>8. HasClass(db[To], c)
    BY <1>2, <1>7 DEF ClassesThere
  <1>9. /\ Len(db[To].testrun) \in DOMAIN db[To].testrun /\ Len(db[To].testrun) \in Nat
        /\ TypeID(db[To], c) \in DOMAIN db[To].testclassinfo /\ TypeID(db[To], c) \in Nat
        /\ Len(db[To].test) \in Nat /\ DOMAIN db[To].test = 1..Len(db[To].test)
    BY <1>2, <1>3, <1>8, SeqRows, TypeIDIs DEF RunIs
  <1>10. /\ row \in Tests /\ row.testrun = Len(db[To].testrun) /\ row.type = TypeID(db[To], c)
         /\ row.rated = old.rated /\ row.parent = old.parent /\ row.ismonitor = old.ismonitor
    BY <1>6, <1>9 DEF Tests
  <1>11. ParentThere(row, Len(db[To].test) + 1)
    <2>1. ParentThere(old, i)
      BY <1>3, <1>5 DEF Sound, Resolved
    <2>2. row.parent \in {0, 1}
      BY <1>5, <1>10, <2>1 DEF ParentThere
    <2> QED
      BY <1>9, <2>2 DEF ParentThere
  <1> HIDE DEF row
  <1>12. /\ Sound(w) /\ More(db[To], w, 0)
         /\ Len(w.test) = n /\ w.test[n] = row /\ n = Len(db[To].test) + 1
         /\ w.entries = db[To].entries /\ w.names = db[To].names
         /\ w.testrun = db[To].testrun /\ w.testclassinfo = db[To].testclassinfo
    BY <1>0, <1>3, <1>9, <1>10, <1>11, WithTestMore
  <1> HIDE DEF w
  <1>13. Adds(To, w, w, 0)
    BY <1>3, <1>4, <1>12, CommitAdds
  <1>14. OnlyAdds
    BY <1>13, AddsOnly
  <1>15. /\ db' \in [DBs -> Tables] /\ disk' \in [DBs -> Tables]
         /\ db'[To] = w /\ disk'[To] = w /\ db'[From] = db[From] /\ disk'[From] = disk[From]
         /\ \A e \in DBs : Sound(db[e])' /\ Sound(disk[e])' /\ Behind(disk[e], db[e])'
    BY <1>3, <1>13, AddsTypes
  <1>16. Grows(db[To], db'[To]) /\ Grows(db[From], db'[From])
    BY <1>12, <1>15, MoreOfSame DEF More
  <1>17. \A p \in copies : p.new # n
    <2>1. \A p \in copies : p.new \in DOMAIN db[To].test
      BY DEF DatabaseBook, CopyBook
    <2> QED
      BY <1>0, <1>9, <2>1
  <1>18. ASSUME NEW p \in copies
         PROVE  CopyBook(p)'
    <2>1. p.new \in DOMAIN db[To].test /\ p.new # 0
      <3>1. CopyBook(p)
        BY DEF DatabaseBook
      <3>2. p.new \in DOMAIN db[To].test
        BY <3>1 DEF CopyBook
      <3> QED
        BY <1>9, <3>2
    <2>2. /\ db'[From].test[p.old] = db[From].test[p.old]
          /\ db'[To].test[p.new] = db[To].test[p.new]
          /\ NamesKept(disk[From], disk'[From]) /\ disk[From].entries \subseteq disk'[From].entries
      BY <1>12, <1>15, <2>1 DEF NamesKept, More
    <2>3. \A k \in Kinds : NamesOf(db'[To], k, p.new) = NamesOf(db[To], k, p.new)
      BY <1>12, <1>15 DEF NamesOf
    <2> QED
      BY <1>15, <1>16, <2>2, <2>3, CopyStays
  <1>19. CopyBook(new)'
    <2>1. PICK q : q = new
      OBVIOUS
    <2>2. /\ q.old = i /\ q.new = n
          /\ q.old \in DOMAIN db'[From].test /\ q.new \in DOMAIN db'[To].test
      <3>1. n \in DOMAIN w.test
        <4>1. DOMAIN w.test = 1..Len(w.test)
          BY <1>12, SeqRows DEF Sound
        <4> QED
          BY <1>9, <1>12, <4>1
      <3> QED
        BY <1>5, <1>15, <2>1, <3>1
    <2>3. db'[To].test[q.new] = row /\ db'[From].test[q.old] = old
      BY <1>12, <1>15, <2>2
    <2>4. row.type = TypeID(db'[To], TypeName(db'[From], q.old))
      <3>1. TypeID(w, c) = TypeID(db[To], c)
        BY <1>8, <1>12 DEF More, Grows
      <3>2. TypeName(db'[From], q.old) = c
        BY <1>15, <2>2 DEF TypeName
      <3> QED
        BY <1>10, <1>15, <3>1, <3>2
    <2>5. db'[To].client[db'[To].testrun[row.testrun].client] = ClientOfRun(at.run)'
      <3>1. RunIs(at.run)'
        BY <1>2, <1>12, <1>15, <1>16, RunStays
      <3> QED
        BY <1>10, <1>12, <1>15, <3>1 DEF RunIs
    <2>6. \A k \in Kinds : NamesOf(db'[To], k, q.new) = {}
      <3>1. \A e \in db[To].entries : e.test \in DOMAIN db[To].test
        BY <1>3 DEF Sound, Resolved
      <3>2. \A e \in w.entries : e.test # n
        BY <1>9, <1>12, <3>1
      <3> QED
        BY <1>15, <2>2, <3>2 DEF NamesOf
    <2>7. CopyBook(q)'
      <3>1. db'[From].test[q.old].testrun = at.run
        BY <1>6, <2>3
      <3>2. ClientOfRun(at.run)' = db'[From].client[db'[From].testrun[at.run].client]
        BY DEF ClientOfRun
      <3>3. db'[To].client[db'[To].testrun[row.testrun].client]
                = ClientOfRun(db[From].test[q.old].testrun)'
        BY <2>5, <3>1, <3>2 DEF ClientOfRun
      <3> QED
        BY <1>10, <2>2, <2>3, <2>4, <2>6, <3>3 DEF CopyBook
    <2> QED
      BY <2>1, <2>7
  <1>20. DatabaseBook'
    <2>1. new \in Copies
      BY <1>0, <1>5, <1>9 DEF Copies
    <2>2. copies' \in SUBSET Copies
      BY <1>4, <2>1 DEF DatabaseBook
    <2>3. \A p \in copies' : CopyBook(p)'
      BY <1>4, <1>18, <1>19
    <2>4. \A p, q \in copies' : p.new = q.new => p = q
      <3>1. new.new = n
        OBVIOUS
      <3> HIDE DEF new
      <3> QED
        BY <1>4, <1>17, <3>1 DEF DatabaseBook
    <2> QED
      BY <1>15, <2>2, <2>3, <2>4 DEF DatabaseBook
  <1>21. /\ P \in Seq(Tasks) /\ Len(P) = 3
         /\ P[1] = ToMerge("mergeArguments", i) /\ P[2] = ToMerge("mergeExtraInfo", i)
         /\ P[3] = ToMerge("mergeTests", [at EXCEPT !.after = i])
    <2>1. i \in Args
      BY <1>5 DEF Args
    <2>2. [at EXCEPT !.after = i] \in Args
      <3>1. at.run \in Nat
        BY <1>2, <1>3, SeqRows
      <3>2. [at EXCEPT !.after = i] \in [run : Nat, after : Nat]
        BY <1>2, <1>5, <3>1
      <3> QED
        BY <3>2 DEF Args
    <2>3. /\ ToMerge("mergeArguments", i) \in Tasks /\ ToMerge("mergeExtraInfo", i) \in Tasks
          /\ ToMerge("mergeTests", [at EXCEPT !.after = i]) \in Tasks
      BY <1>3, <2>1, <2>2, TaskIs DEF ToMerge, Ops, MergeOps
    <2> QED
      BY <2>3
  <1> HIDE DEF P
  <1>22. ASSUME NEW j \in 1..Len(P)
         PROVE  MergeReady(P[j])'
    <2>1. CASE j = 1
      <3>1. /\ P[j].op = "mergeArguments" /\ P[j].db = To
            /\ [old |-> P[j].arg, new |-> Len(db'[To].test)] \in copies'
        BY <1>4, <1>12, <1>15, <1>21, <2>1 DEF ToMerge
      <3> QED
        BY <3>1 DEF MergeReady, MergeOps
    <2>2. CASE j = 2
      <3>1. P[j].op = "mergeExtraInfo" /\ P[j].db = To
        BY <1>21, <2>2 DEF ToMerge
      <3> QED
        BY <3>1 DEF MergeReady, MergeOps
    <2>3. CASE j = 3
      <3>1. P[j].op = "mergeTests" /\ P[j].db = To /\ P[j].arg = [at EXCEPT !.after = i]
        BY <1>21, <2>3 DEF ToMerge
      <3>2. /\ P[j].arg \in [run : DOMAIN db'[From].testrun, after : Nat]
            /\ P[j].arg.run = at.run
        BY <1>2, <1>5, <1>15, <3>1
      <3>3. RunIs(at.run)' /\ ClassesThere(at.run)'
        BY <1>2, <1>12, <1>15, <1>16, RunStays, ClassesStay
      <3> QED
        BY <3>1, <3>2, <3>3 DEF MergeReady, MergeOps
    <2> QED
      BY <1>21, <2>1, <2>2, <2>3
  <1>23. ASSUME NEW j \in 1..Len(P), NEW k \in 1..(j - 1)
         PROVE  Before(P[k], P[j])
    <2>1. (j = 2 /\ k = 1) \/ (j = 3 /\ k \in {1, 2})
      BY <1>21
    <2>2. /\ P[1].op = "mergeArguments" /\ P[2].op = "mergeExtraInfo" /\ P[3].op = "mergeTests"
      BY <1>21 DEF ToMerge
    <2> QED
      BY <2>1, <2>2 DEF Before, Under
  <1>24. ProgramBook'
    BY <1>1, <1>4, <1>15, <1>16, <1>21, <1>22, <1>23, MergingStays
  <1> QED
    BY <1>14, <1>20, <1>24

\* The runs that are to be merged.
LEMMA StartMergeStays ==
    ASSUME DatabaseBook, ProgramBook, StartMerge
    PROVE  DatabaseBook' /\ ProgramBook'
  <1> DEFINE all == [r \in DOMAIN db[From].testrun |-> r]
             Which == {all} \cup {<<r>> : r \in Range(all)}
  <1>1. UNCHANGED <<db, disk, copies>> /\ todo = <<>>
    BY DEF StartMerge
  <1>2. DatabaseBook'
    BY <1>1, SameDatabases
  <1>3. PICK runs \in Which :
            todo' = [j \in DOMAIN runs |-> ToMerge("mergeClient", runs[j])]
                        \o <<ToMerge("mergeDone", 0)>>
    BY DEF StartMerge
  <1>4. /\ To \in DBs /\ From \in DBs /\ Len(db[From].testrun) \in Nat
        /\ DOMAIN db[From].testrun = 1..Len(db[From].testrun)
    BY SeqRows DEF DBs, DatabaseBook
  <1>5. PICK n \in Nat : runs \in [1..n -> DOMAIN db[From].testrun]
    <2>1. CASE runs = all
      BY <1>4, <2>1
    <2>2. CASE runs # all
      <3>1. PICK r \in DOMAIN db[From].testrun : runs = <<r>>
        BY <1>3, <2>2 DEF Range
      <3>2. runs \in [1..1 -> DOMAIN db[From].testrun]
        BY <3>1
      <3> QED
        BY <3>2
    <2> QED
      BY <2>1, <2>2
  <1> DEFINE A == [j \in DOMAIN runs |-> ToMerge("mergeClient", runs[j])]
             B == <<ToMerge("mergeDone", 0)>>
  <1>6. \A j \in 1..n : /\ A[j] = ToMerge("mergeClient", runs[j]) /\ A[j] \in Tasks
                        /\ runs[j] \in DOMAIN db[From].testrun
    <2> TAKE j \in 1..n
    <2>1. A[j] = ToMerge("mergeClient", runs[j]) /\ runs[j] \in DOMAIN db[From].testrun
      BY <1>5
    <2>2. runs[j] \in Args
      BY <1>4, <2>1 DEF Args
    <2> QED
      BY <1>4, <2>1, <2>2, TaskIs DEF ToMerge, Ops, MergeOps
  <1>7. A \in Seq(Tasks) /\ Len(A) = n
    <2>1. DOMAIN A = 1..n /\ A = [j \in 1..n |-> A[j]]
      BY <1>5
    <2> HIDE DEF A
    <2>2. A \in [1..n -> Tasks]
      BY <1>6, <2>1
    <2>3. A \in Seq(Tasks)
      BY <2>2, SeqDef
    <2> QED
      BY <2>1, <2>3, LenProperties
  <1>8. /\ B \in Seq(Tasks) /\ Len(B) = 1 /\ B[1] = ToMerge("mergeDone", 0)
    <2>1. 0 \in Args
      BY DEF Args
    <2>2. ToMerge("mergeDone", 0) \in Tasks
      BY <1>4, <2>1, TaskIs DEF ToMerge, Ops, MergeOps
    <2> QED
      BY <2>2
  <1>9. todo' = A \o B
    BY <1>3
  <1> HIDE DEF A, B
  <1>10. /\ todo' \in Seq(Tasks) /\ Len(todo') = n + 1
         /\ \A i \in 1..(n + 1) : todo'[i] = IF i <= n THEN A[i] ELSE B[i - n]
    <2>1. /\ todo' \in Seq(Tasks) /\ Len(todo') = Len(A) + Len(B)
          /\ \A i \in 1..(Len(A) + Len(B)) : todo'[i] = IF i <= Len(A) THEN A[i] ELSE B[i - Len(A)]
      BY <1>7, <1>8, <1>9, ConcatProperties
    <2> QED
      BY <1>7, <1>8, <2>1
  <1>11. DOMAIN todo' = 1..(n + 1) /\ todo' # <<>>
    <2>1. DOMAIN todo' = 1..Len(todo') /\ Len(todo') # 0
      BY <1>10, LenProperties
    <2> QED
      BY <1>10, <2>1
  <1>12. /\ \A i \in 1..n : /\ todo'[i] = ToMerge("mergeClient", runs[i])
                            /\ runs[i] \in DOMAIN db[From].testrun
         /\ todo'[n + 1] = ToMerge("mergeDone", 0)
    <2>1. \A i \in 1..n : todo'[i] = A[i]
      BY <1>10
    <2>2. todo'[n + 1] = B[1]
      BY <1>10
    <2> QED
      BY <1>6, <1>8, <2>1, <2>2
  <1>13. ASSUME NEW i \in 1..(n + 1)
         PROVE  /\ todo'[i].op \in {"mergeClient", "mergeDone"} /\ todo'[i].db = To
                /\ todo'[i].op = "mergeClient" => todo'[i].arg \in DOMAIN db'[From].testrun
    <2>1. CASE i \in 1..n
      <3>1. todo'[i] = ToMerge("mergeClient", runs[i]) /\ runs[i] \in DOMAIN db[From].testrun
        BY <1>12, <2>1
      <3>2. db' = db
        BY <1>1
      <3> QED
        BY <3>1, <3>2 DEF ToMerge
    <2>2. CASE i = n + 1
      BY <1>12, <2>2 DEF ToMerge
    <2> QED
      BY <2>1, <2>2
  <1>14. Merging'
    <2>1. todo'[Len(todo')].op = "mergeDone"
      BY <1>10, <1>12 DEF ToMerge
    <2>2. \A i \in DOMAIN todo' : MergeReady(todo[i])'
      BY <1>11, <1>13 DEF MergeReady, MergeOps
    <2>3. \A i \in DOMAIN todo' : \A j \in 1..(i - 1) : Before(todo[j], todo[i])'
      <3> TAKE i \in DOMAIN todo'
      <3> TAKE j \in 1..(i - 1)
      <3>1. i \in 1..(n + 1) /\ j \in 1..(n + 1)
        BY <1>11
      <3>2. /\ todo'[i].op \in {"mergeClient", "mergeDone"}
            /\ todo'[j].op \in {"mergeClient", "mergeDone"}
        BY <1>13, <3>1
      <3> QED
        BY <3>2 DEF Before, Under, MergeOps
    <2> QED
      BY <2>1, <2>2, <2>3 DEF Merging
  <1>15. \A d \in DBs : db'[d] = disk'[d]
    BY <1>1 DEF ProgramBook
  <1> QED
    BY <1>2, <1>10, <1>14, <1>15 DEF ProgramBook

LEMMA RunnerStepStays ==
    ASSUME DatabaseBook, ProgramBook, RunnerStep
    PROVE  DatabaseBook' /\ ProgramBook'
  <1>1. PICK d, arg : d = todo[1].db /\ arg = todo[1].arg
    OBVIOUS
  <1>2. \/ SetClientInfo(d, arg) \/ StartNewTestRun(d, arg) \/ EndTestRun(d, arg)
        \/ StoreTestClassInfo(d, arg) \/ NewTestStarted(d, arg) \/ NewTestStopped(d, arg)
        \/ NewTestFinished(d, arg) \/ StoreMonitorClassInfo(d, arg) \/ StoreMonitor(d, arg)
    <2>1. Head(todo) = todo[1]
      BY DEF ProgramBook
    <2> QED
      BY <1>1, <2>1 DEF RunnerStep
  <1> QED
    BY <1>1, <1>2, SetClientInfoStays, StartNewTestRunStays, EndTestRunStays,
       StoreTestClassInfoStays, NewTestStartedStays, NewTestStoppedStays,
       NewTestFinishedStays, StoreMonitorClassInfoStays, StoreMonitorStays

LEMMA MergeStepStays ==
    ASSUME DatabaseBook, ProgramBook, MergeStep
    PROVE  DatabaseBook' /\ ProgramBook' /\ OnlyAdds
  <1>1. PICK arg : arg = todo[1].arg
    OBVIOUS
  <1>2. \/ MergeClient(arg) \/ MergeRun(arg) \/ MergeRunEnd(arg) \/ MergeClasses(arg)
        \/ MergeClass(arg) \/ MergeTest(arg) \/ MergeTestsDone(arg) \/ MergeArguments(arg)
        \/ MergeExtraInfo(arg) \/ MergeParents(arg) \/ MergeDone
    <2>1. Head(todo) = todo[1]
      BY DEF ProgramBook
    <2> QED
      BY <1>1, <2>1 DEF MergeStep
  <1> QED
    BY <1>1, <1>2, MergeClientStays, MergeRunStays, MergeRunEndStays, MergeClassesStays,
       MergeClassStays, MergeTestStays, MergeTestsDoneStays, MergeArgumentsStays,
       MergeExtraInfoStays, MergeParentsStays, MergeDoneStays

LEMMA InitBooks ==
    ASSUME Init
    PROVE  DatabaseBook /\ ProgramBook
  <1>1. Empty \in Tables
    BY DEF Empty, Tables
  <1>2. Sound(Empty) /\ Behind(Empty, Empty)
    BY <1>1 DEF Sound, Resolved, Empty, Behind, NamesKept
  <1>3. /\ db = [d \in DBs |-> Empty] /\ disk = [d \in DBs |-> Empty]
        /\ todo = <<>> /\ copies = {}
    BY DEF Init
  <1>4. DatabaseBook
    BY <1>1, <1>2, <1>3 DEF DatabaseBook
  <1>5. ProgramBook
    <2>1. <<>> \in Seq(Tasks) /\ DOMAIN <<>> = {}
      BY EmptySeq
    <2> QED
      BY <1>3, <2>1 DEF ProgramBook, Recording
  <1> QED
    BY <1>4, <1>5

\* Every step keeps the books.
LEMMA BooksStay ==
    ASSUME DatabaseBook, ProgramBook, [Next]_vars
    PROVE  DatabaseBook' /\ ProgramBook'
  <1>1. CASE StartSession
    BY <1>1, StartSessionStays
  <1>2. CASE RunnerStep
    BY <1>2, RunnerStepStays
  <1>3. CASE StartMerge
    BY <1>3, StartMergeStays
  <1>4. CASE MergeStep
    BY <1>4, MergeStepStays
  <1>5. CASE Kill
    BY <1>5, OverStays DEF Kill
  <1>6. CASE UNCHANGED vars
    <2>1. UNCHANGED <<db, disk, copies, todo>>
      BY <1>6 DEF vars
    <2>2. DatabaseBook'
      BY <2>1, SameDatabases
    <2>3. ProgramBook'
      <3>1. CASE Recording
        <4>1. \A i, op : Earlier(i, op)' = Earlier(i, op)
          BY <2>1 DEF Earlier
        <4>2. \A d : Own(d)' <=> Own(d)
          BY <2>1 DEF Own
        <4>3. ASSUME NEW i \in DOMAIN todo
              PROVE  RecordingTask(i)'
          <5>1. RecordingTask(i)
            BY <3>1 DEF Recording
          <5>2. PICK t, first : t = todo[i] /\ first = todo[1]
            OBVIOUS
          <5>3. t = todo'[i] /\ first = todo'[1]
            BY <2>1, <5>2
          <5>4. Own(t.db)' <=> Own(t.db)
            BY <4>2
          <5>5. Own(todo[i].db) <=> Own(t.db)
            BY <5>2
          <5>6. Own(todo[i].db)' <=> Own(t.db)'
            BY <5>3
          <5> QED
            BY <2>1, <4>1, <5>1, <5>2, <5>3, <5>4, <5>5, <5>6 DEF RecordingTask
        <4>4. Recording'
          BY <2>1, <3>1, <4>3 DEF Recording
        <4> QED
          BY <2>1, <4>4 DEF ProgramBook
      <3>2. CASE Merging
        <4>1. \A r : (RunIs(r)' <=> RunIs(r)) /\ (ClassesThere(r)' <=> ClassesThere(r))
          BY <2>1 DEF RunIs, ClassesThere, TestTypeUsed, ClientOfRun
        <4>2. \A t : MergeReady(t) => MergeReady(t)'
          <5> TAKE t
          <5>1. /\ RunIs(t.arg)' <=> RunIs(t.arg)
                /\ RunIs(t.arg.run)' <=> RunIs(t.arg.run)
                /\ ClassesThere(t.arg.run)' <=> ClassesThere(t.arg.run)
            BY <4>1
          <5> QED
            BY <2>1, <5>1 DEF MergeReady, ClientOfRun
        <4>3. \A i \in DOMAIN todo' : MergeReady(todo[i])'
          <5> TAKE i \in DOMAIN todo'
          <5>1. PICK t : t = todo[i]
            OBVIOUS
          <5>2. MergeReady(t)
            BY <2>1, <3>2, <5>1 DEF Merging
          <5>3. MergeReady(t)' /\ todo'[i] = t
            BY <2>1, <4>2, <5>1, <5>2
          <5> QED
            BY <5>3 DEF MergeReady
        <4>4. Merging'
          BY <2>1, <3>2, <4>3 DEF Merging, Before
        <4> QED
          BY <2>1, <4>4 DEF ProgramBook
      <3> QED
        BY <3>1, <3>2 DEF ProgramBook
    <2> QED
      BY <2>2, <2>3
  <1> QED
    BY <1>1, <1>2, <1>3, <1>4, <1>5, <1>6 DEF Next

\* Whatever was recorded, merged or killed: the databases are sound, what is
\* committed lacks only names and entries, copies agree with their originals, and
\* every statement that is still to be done will find what it refers to.
THEOREM BooksAlways == Spec => [](DatabaseBook /\ ProgramBook)
  <1>1. Init => DatabaseBook /\ ProgramBook
    BY InitBooks
  <1>2. (DatabaseBook /\ ProgramBook) /\ [Next]_vars => (DatabaseBook /\ ProgramBook)'
    BY BooksStay
  <1> QED
    BY <1>1, <1>2, PTL DEF Spec

\* No row on disk refers to one that is not there: a run has its client, a test its
\* run and its class, an entry its test and its name, although a merge gives these
\* ids out anew and a kill may fall between any two statements.  A parent, which is
\* copied as it is, is the id of some row.
THEOREM ReferencesResolveTheorem == Spec => []ReferencesResolve
  <1>1. DatabaseBook => ReferencesResolve
    <2> SUFFICES ASSUME DatabaseBook, NEW d \in DBs
                 PROVE  LET t == disk[d]
                        IN  /\ \A r \in Range(t.testrun) : r.client \in DOMAIN t.client
                            /\ \A r \in Range(t.test) :
                                  /\ r.testrun \in DOMAIN t.testrun
                                  /\ r.type \in DOMAIN t.testclassinfo
                                  /\ r.parent \in DOMAIN t.test \cup {0}
                            /\ \A e \in t.entries :
                                  e.test \in DOMAIN t.test /\ e.name \in DOMAIN t.names[e.kind]
      BY DEF ReferencesResolve
    <2>1. Resolved(disk[d]) /\ disk[d] \in Tables
      BY DEF DatabaseBook, Sound
    <2>2. \A i \in DOMAIN disk[d].test : disk[d].test[i].parent \in DOMAIN disk[d].test \cup {0}
      <3> DEFINE n == Len(disk[d].test)
      <3>1. n \in Nat /\ DOMAIN disk[d].test = 1..n
        BY <2>1, SeqRows
      <3>2. \A i \in DOMAIN disk[d].test : disk[d].test[i].parent \in 0..i
        BY <2>1 DEF Resolved, ParentThere
      <3> HIDE DEF n
      <3>3. \A i \in 1..n : 0..i \subseteq (1..n) \cup {0}
        BY <3>1
      <3> QED
        BY <3>1, <3>2, <3>3
    <2> QED
      BY <2>1, <2>2 DEF Resolved, Range
  <1> QED
    BY <1>1, BooksAlways, PTL

\* __mergeTest maps every id: a copy is of the class and the client of its
\* original, has its result, and gets no name that the original does not have.
THEOREM CopiesAgreeTheorem == Spec => []CopiesAgree
  <1>1. DatabaseBook => CopiesAgree
    <2> SUFFICES ASSUME DatabaseBook, NEW p \in copies
                 PROVE  LET old == db[From].test[p.old]
                            new == db[To].test[p.new]
                        IN  /\ new.type = TypeID(db[To], TypeName(db[From], p.old))
                            /\ new.rated = old.rated
                            /\ db[To].client[db[To].testrun[new.testrun].client]
                                   = ClientOfRun(old.testrun)
                            /\ \A k \in Kinds :
                                  NamesOf(db[To], k, p.new) \subseteq NamesOf(db[From], k, p.old)
      BY DEF CopiesAgree
    <2>1. CopyBook(p)
      BY DEF DatabaseBook
    <2>2. \A k \in Kinds : NamesOf(disk[From], k, p.old) \subseteq NamesOf(db[From], k, p.old)
      <3>1. Behind(disk[From], db[From]) /\ Sound(disk[From])
        BY DEF DatabaseBook, DBs
      <3>2. \A e \in disk[From].entries :
                /\ e \in db[From].entries /\ e.kind \in Kinds
                /\ disk[From].names[e.kind][e.name].name = db[From].names[e.kind][e.name].name
        <4>1. \A e \in disk[From].entries : e.kind \in Kinds
          BY <3>1 DEF Sound, Tables, Entries
        <4> QED
          BY <3>1, <4>1 DEF Behind, NamesKept, Sound, Resolved
      <3> QED
        BY <3>2, FewerNames
    <2> QED
      BY <2>1, <2>2 DEF CopyBook
  <1> QED
    BY <1>1, BooksAlways, PTL

\* No statement of a merge changes the origin, or in the destination an entry or a
\* row of test that is there, but for parents in the run that is being merged.
THEOREM MergeOnlyAddsTheorem == Spec => MergeOnlyAdds
  <1>1. DatabaseBook /\ ProgramBook /\ MergeStep => OnlyAdds
    BY MergeStepStays
  <1>2. DatabaseBook /\ ProgramBook /\ [Next]_vars =>
            [MergeStep =>
                /\ disk'[From] = disk[From]
                /\ disk[To].entries \subseteq disk'[To].entries
                /\ \A i \in DOMAIN disk[To].test :
                      LET old == disk[To].test[i]
                          new == disk'[To].test[i]
                      IN  new = old \/ (/\ old.testrun = Len(disk[To].testrun)
                                       /\ new = [old EXCEPT !.parent = new.parent])]_vars
    BY <1>1 DEF OnlyAdds
  <1> QED
    BY <1>2, BooksAlways, PTL DEF Spec, MergeOnlyAdds
=============================================================================
