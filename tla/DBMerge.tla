------------------------------ MODULE DBMerge -------------------------------
(***************************************************************************)
(* What a database knows about the classes of its tests and monitors       *)
(* (testclassinfo and the dictionaries of names), and how bin/insanity-    *)
(* dbmerge copies the test runs of one database into another               *)
(* (insanity/storage/dbstorage.py, synchronous storages).                  *)
(*                                                                         *)
(* A program that writes is a sequence of statements still to do; a step   *)
(* does one of them and reaches up to the next commit.  A kill and an      *)
(* exception have the same effect on the database: what was not committed  *)
(* is gone.  Values of arguments, extra information and results are left   *)
(* out: a dictionary is the set of its names; the checklist and the output *)
(* files go the way of the arguments.  The environment of a run is not in  *)
(* the model.                                                              *)
(***************************************************************************)
EXTENDS Naturals, SequencesExt

CONSTANTS
    Clients,         \* software, client name and user
    TestClasses,
    MonitorClasses,  \* monitors, subclasses of Root
    Root,            \* the class Monitor
    Declares,        \* Declares[c][k]: the names of kind k that class c declares
    Undeclared,      \* extra information that tests report besides
    MaxSessions,     \* runs of the runner, on one database or the other
    MaxMerges,       \* times the databases are merged
    MaxKills

Kinds == {"arguments", "extrainfo"}
Classes == TestClasses \cup MonitorClasses \cup {Root}
NoClass == "no class"

ASSUME ClassesAssumption ==
    /\ Root \notin TestClasses \cup MonitorClasses
    /\ NoClass \notin Classes
    /\ \A c \in Classes, k \in Kinds : IsFiniteSet(Declares[c][k])
    /\ IsFiniteSet(Undeclared)

From == "origin"
To == "destination"
DBs == {From, To}

VARIABLES
    db,              \* db[d]: the tables as the connection to d sees them
    disk,            \* disk[d]: what is committed
    todo,            \* what the program that is running still has to do
    copies,          \* history: [old, new] for each row of test that was merged
    sessions, merges, kills

vars == <<db, disk, todo, copies, sessions, merges, kills>>
bounds == <<sessions, merges, kills>>

\* The tables; the id of a row is its place.  A name is stored for a
\* container, the class that declares it; an entry says that a test has a
\* value for the name with that id.
Empty == [client |-> <<>>, testrun |-> <<>>, testclassinfo |-> <<>>, test |-> <<>>,
          names |-> [k \in Kinds |-> <<>>], entries |-> {}]

Init ==
    /\ db = [d \in DBs |-> Empty]
    /\ disk = [d \in DBs |-> Empty]
    /\ todo = <<>>
    /\ copies = {}
    /\ sessions = 0
    /\ merges = 0
    /\ kills = 0

-----------------------------------------------------------------------------
(* Queries and statements on the tables t of one database.                 *)

\* The last of the ids that a query finds, 0 for none.
LastRow(found) == IF found = {} THEN 0 ELSE Max(found)

ClientID(t, u) == LastRow({i \in DOMAIN t.client : t.client[i] = u})
TypeID(t, c) ==
    LastRow({i \in DOMAIN t.testclassinfo : t.testclassinfo[i].type = c})
HasClass(t, c) == TypeID(t, c) # 0

TypeName(t, i) == t.testclassinfo[t.test[i].type].type

\* All names of the table, whatever their container.
Mapping(t, k, n) ==
    LastRow({i \in DOMAIN t.names[k] : t.names[k][i].name = n})
Known(t, k) == {r.name : r \in Range(t.names[k])}

\* The entries of a test, by name.
NamesOf(t, k, i) ==
    {t.names[k][e.name].name : e \in {x \in t.entries : x.kind = k /\ x.test = i}}

\* The names of a class, looked up by the id of its row.
ClassNames(t, c) ==
    [k \in Kinds |-> {r.name : r \in
        {x \in Range(t.names[k]) : x.container = [by |-> "id", is |-> TypeID(t, c)]}}]

\* The client that is there already, or a new one.
WithClient(t, u) == IF ClientID(t, u) # 0 THEN t ELSE [t EXCEPT !.client = Append(@, u)]

WithRun(t, u) ==
    [t EXCEPT !.testrun = Append(@, [client |-> ClientID(t, u), ended |-> FALSE])]

WithRunEnded(t, ended) == [t EXCEPT !.testrun[Len(t.testrun)].ended = ended]

WithTest(t, row) == [t EXCEPT !.test = Append(@, row)]

WithNames(t, k, container, ns) ==
    [t EXCEPT !.names[k] =
        @ \o SetToSeq({[container |-> container, name |-> n] : n \in ns})]

\* Names that have no mapping are dropped.
WithEntries(t, k, i, ns) ==
    [t EXCEPT !.entries = @ \cup
        {[kind |-> k, test |-> i, name |-> Mapping(t, k, n)] : n \in ns \cap Known(t, k)}]

\* Names nobody declared become names of no class, unless there are no names
\* at all: then everything is dropped.
WithExtraInfo(t, i, ns) ==
    LET unknown == IF Known(t, "extrainfo") = {} THEN {} ELSE ns \ Known(t, "extrainfo")
    IN  WithEntries(WithNames(t, "extrainfo", [by |-> "nothing"], unknown), "extrainfo", i, ns)

\* The row of a class, which is committed, and then its names, which are not.
ClassRow(t, c, parent) ==
    [t EXCEPT !.testclassinfo = Append(@, [type |-> c, parent |-> parent])]
WithClassNames(t, c, ns) ==
    LET container == [by |-> "type", is |-> c]
    IN  WithNames(WithNames(t, "arguments", container, ns["arguments"]),
                  "extrainfo", container, ns["extrainfo"])

-----------------------------------------------------------------------------
(* Steps of the program that is running.                                   *)

\* A step of the task at the head of todo on database d: what is committed,
\* what is written after that, and what is left to do.
Step(d, tables, more, then) ==
    /\ disk' = [disk EXCEPT ![d] = tables]
    /\ db' = [db EXCEPT ![d] = more]
    /\ todo' = then
    /\ UNCHANGED bounds

Commit(d, tables) == Step(d, tables, tables, Tail(todo))
Write(d, tables) == Step(d, disk[d], tables, Tail(todo))
Skip == todo' = Tail(todo) /\ UNCHANGED <<db, disk, bounds>>

\* An exception that nobody catches, or a kill: the program is over.
Over == todo' = <<>> /\ db' = disk /\ UNCHANGED disk

InsertClass(d, c, parent, ns, then) ==
    LET row == ClassRow(db[d], c, parent)
    IN  Step(d, row, WithClassNames(row, c, ns), then)

Task(op) == todo # <<>> /\ Head(todo).op = op
Unmerged == UNCHANGED copies

-----------------------------------------------------------------------------
(* The runner: a run of one test of two iterations, and maybe a monitor.   *)

Session(d, u, c, monitor) ==
    LET T(op, arg) == [op |-> op, db |-> d, arg |-> arg]
    IN  <<T("client", u), T("startRun", u),
          T("class", c), T("started", c), T("stopped", c),
          T("class", c), T("started", c), T("stopped", c), T("finished", c)>>
        \o (IF monitor = NoClass THEN <<>>
            ELSE <<T("monitorClass", monitor), T("monitor", monitor)>>)
        \o <<T("endRun", u)>>

StartSession ==
    /\ todo = <<>>
    /\ sessions < MaxSessions
    /\ sessions' = sessions + 1
    /\ \E d \in DBs, u \in Clients, c \in TestClasses, m \in MonitorClasses \cup {NoClass} :
          todo' = Session(d, u, c, m)
    /\ Unmerged
    /\ UNCHANGED <<db, disk, merges, kills>>

SetClientInfo(d, u) ==
    /\ Task("client")
    /\ Commit(d, WithClient(db[d], u))
    /\ Unmerged

StartNewTestRun(d, u) ==
    /\ Task("startRun")
    /\ Commit(d, WithRun(db[d], u))
    /\ Unmerged

EndTestRun(d, u) ==
    /\ Task("endRun")
    /\ Commit(d, WithRunEnded(db[d], TRUE))
    /\ Unmerged

StoreTestClassInfo(d, c) ==
    /\ Task("class")
    /\ IF HasClass(db[d], c) THEN Skip
       ELSE InsertClass(d, c, NoClass, Declares[c], Tail(todo))
    /\ Unmerged

NewTestStarted(d, c) ==
    /\ Task("started")
    /\ Commit(d, WithTest(db[d], [testrun |-> Len(db[d].testrun), type |-> TypeID(db[d], c),
                                  parent |-> 0, ismonitor |-> FALSE, rated |-> FALSE]))
    /\ Unmerged

\* The parent is the flag commit, which is 1 (see DBStorage).
NewTestStopped(d, c) ==
    LET i == Len(db[d].test)
        t == WithExtraInfo(WithEntries(db[d], "arguments", i, Declares[c]["arguments"]),
                           i, Declares[c]["extrainfo"] \cup Undeclared)
    IN  /\ Task("stopped")
        /\ Commit(d, [t EXCEPT !.test[i].rated = TRUE, !.test[i].parent = 1])
        /\ Unmerged

NewTestFinished(d, c) ==
    /\ Task("finished")
    /\ Commit(d, [db[d] EXCEPT !.test[Len(db[d].test)].parent = 0])
    /\ Unmerged

\* The classes of a monitor in the order of its mro: itself, then Root, up to
\* one that is there already.
StoreMonitorClassInfo(d, c) ==
    /\ Task("monitorClass")
    /\ IF HasClass(db[d], c) THEN Skip
       ELSE InsertClass(d, c, IF c = Root THEN NoClass ELSE Root, Declares[c],
               IF c = Root THEN Tail(todo)
               ELSE <<[op |-> "monitorClass", db |-> d, arg |-> Root]>> \o Tail(todo))
    /\ Unmerged

\* The row of the monitor is committed, its dictionaries are not.
StoreMonitor(d, c) ==
    LET i == Len(db[d].test) + 1
        row == WithTest(db[d], [testrun |-> Len(db[d].testrun), type |-> TypeID(db[d], c),
                                parent |-> i - 1, ismonitor |-> TRUE, rated |-> TRUE])
    IN  /\ Task("monitor")
        /\ Step(d, row, WithExtraInfo(WithEntries(row, "arguments", i, Declares[c]["arguments"]),
                                      i, Declares[c]["extrainfo"]), Tail(todo))
        /\ Unmerged

RunnerStep ==
    /\ todo # <<>>
    /\ LET d == Head(todo).db
           arg == Head(todo).arg
       IN  \/ SetClientInfo(d, arg)
           \/ StartNewTestRun(d, arg)
           \/ EndTestRun(d, arg)
           \/ StoreTestClassInfo(d, arg)
           \/ NewTestStarted(d, arg)
           \/ NewTestStopped(d, arg)
           \/ NewTestFinished(d, arg)
           \/ StoreMonitorClassInfo(d, arg)
           \/ StoreMonitor(d, arg)

-----------------------------------------------------------------------------
(* insanity-dbmerge: the runs of the origin, one after the other.          *)

\* getTestTypeUsed and getTestsForTestRun: monitors' classes, but not their rows.
TestTypeUsed(r) ==
    {db[From].testclassinfo[t.type].type :
        t \in {x \in Range(db[From].test) : x.testrun = r}}
TestsForTestRun(r) ==
    {i \in DOMAIN db[From].test :
        db[From].test[i].testrun = r /\ ~db[From].test[i].ismonitor}

ToMerge(op, arg) == [op |-> op, db |-> To, arg |-> arg]

\* A query, and what is to be done next.
Consider(then) == todo' = then /\ UNCHANGED <<db, disk, bounds>> /\ Unmerged

\* All runs, or the one that was asked for.
StartMerge ==
    /\ todo = <<>>
    /\ merges < MaxMerges
    /\ LET all == [r \in DOMAIN db[From].testrun |-> r]
       IN  \E runs \in {all} \cup {<<r>> : r \in Range(all)} :
              todo' = [j \in DOMAIN runs |-> ToMerge("mergeClient", runs[j])]
                          \o <<ToMerge("mergeDone", 0)>>
    /\ merges' = merges + 1
    /\ UNCHANGED <<db, disk, copies, sessions, kills>>

ClientOfRun(r) == db[From].client[db[From].testrun[r].client]

MergeClient(r) ==
    LET t == WithClient(db[To], ClientOfRun(r))
    IN  /\ Task("mergeClient")
        /\ Step(To, t, t, <<ToMerge("mergeRun", r)>> \o Tail(todo))
        /\ Unmerged

Inserted(r, t) == Step(To, t, t, <<ToMerge("mergeRunEnd", r)>> \o Tail(todo))

\* Mutant: the id of the client is taken over from the origin.
MergeRunForeignClient(r) ==
    /\ Task("mergeRun")
    /\ Inserted(r, [db[To] EXCEPT !.testrun =
          Append(@, [client |-> db[From].testrun[r].client, ended |-> FALSE])])
    /\ Unmerged

MergeRun(r) ==
    /\ Task("mergeRun")
    /\ Inserted(r, WithRun(db[To], ClientOfRun(r)))
    /\ Unmerged

MergeRunEnd(r) ==
    LET t == WithRunEnded(db[To], db[From].testrun[r].ended)
    IN  /\ Task("mergeRunEnd")
        /\ Step(To, t, t, <<ToMerge("mergeClasses", r)>> \o Tail(todo))
        /\ Unmerged

\* The classes of the run that are not there yet, in any order.
MergeClasses(r) ==
    LET missing == {c \in TestTypeUsed(r) : ~HasClass(db[To], c)}
    IN  /\ Task("mergeClasses")
        /\ \/ missing = {}
              /\ Consider(<<ToMerge("mergeTests", [run |-> r, after |-> 0])>> \o Tail(todo))
           \/ \E c \in missing : Consider(<<ToMerge("mergeClass", c)>> \o todo)

\* __mergeTestClassInfo: the parents first.  A class that the origin does not
\* have is an exception: seven values are unpacked from six.
MergeClass(c) ==
    LET parent == db[From].testclassinfo[TypeID(db[From], c)].parent
        first == parent # NoClass /\ ~HasClass(db[To], parent)
    IN  /\ Task("mergeClass")
        /\ \/ ~HasClass(db[From], c)
              /\ Over /\ UNCHANGED bounds
           \/ HasClass(db[From], c) /\ first
              /\ todo' = <<ToMerge("mergeClass", parent)>> \o todo
              /\ UNCHANGED <<db, disk, bounds>>
           \/ HasClass(db[From], c) /\ ~first
              /\ InsertClass(To, c, parent, ClassNames(db[From], c), Tail(todo))
        /\ Unmerged

\* The tests of a run after a given one, if any.
TestsLeft(at) == {i \in TestsForTestRun(at.run) : i > at.after}

\* A row of test, which is committed; then what the test has, and the next one.
Copied(at, i, type) ==
    LET row == WithTest(db[To], [db[From].test[i] EXCEPT !.testrun = Len(db[To].testrun),
                                                         !.type = type])
    IN  /\ Step(To, row, row,
                <<ToMerge("mergeArguments", i), ToMerge("mergeExtraInfo", i),
                  ToMerge("mergeTests", [at EXCEPT !.after = i])>> \o Tail(todo))
        /\ copies' = copies \cup {[old |-> i, new |-> Len(db[To].test) + 1]}

\* Mutant: the id of the class in the origin.
MergeTestForeignType(at) ==
    /\ Task("mergeTests")
    /\ TestsLeft(at) # {}
    /\ Copied(at, Min(TestsLeft(at)), db[From].test[Min(TestsLeft(at))].type)

\* The class by its name; the parent as it is in the origin.
MergeTest(at) ==
    /\ Task("mergeTests")
    /\ TestsLeft(at) # {}
    /\ LET i == Min(TestsLeft(at))
       IN  Copied(at, i, TypeID(db[To], TypeName(db[From], i)))

\* The loop over the tests ends.
MergeTestsDone(at) ==
    /\ Task("mergeTests")
    /\ TestsLeft(at) = {}
    /\ Consider(<<ToMerge("mergeParents", at.run)>> \o Tail(todo))

MergeArguments(i) ==
    /\ Task("mergeArguments")
    /\ Write(To, WithEntries(db[To], "arguments", Len(db[To].test),
                             NamesOf(db[From], "arguments", i)))
    /\ Unmerged

\* The origin's extra information comes as a list, and map_dict_full() wants a
\* dictionary, unless the destination has no name to map to.
MergeExtraInfo(i) ==
    /\ Task("mergeExtraInfo")
    /\ IF Known(db[To], "extrainfo") = {} THEN Skip
       ELSE Over /\ UNCHANGED bounds
    /\ Unmerged

\* Rewrites the parents of the rows whose ids are in that field of the copies
\* of this run, as they are in the origin.
Reparent(field) ==
    LET current == {p \in copies : db[To].test[p.new].testrun = Len(db[To].testrun)}
        parents(j) == {db[From].test[p.old].parent :
                           p \in {q \in current : q[field] = j}} \ {0}
    IN  /\ Task("mergeParents")
        /\ Commit(To, [db[To] EXCEPT !.test =
              [j \in DOMAIN @ |-> IF parents(j) = {} THEN @[j]
                                  ELSE [@[j] EXCEPT !.parent = CHOOSE p \in parents(j) : TRUE]]])
        /\ Unmerged

\* Mutant: the rows with the ids that the tests had in the origin.
MergeParentsOfOld(r) == Reparent("old")

MergeParents(r) == Reparent("new")

\* The process ends without close(): what is not committed is lost.
MergeDone ==
    /\ Task("mergeDone")
    /\ Over
    /\ UNCHANGED <<copies, bounds>>

MergeStep ==
    /\ todo # <<>>
    /\ LET arg == Head(todo).arg
       IN  \/ MergeClient(arg)
           \/ MergeRun(arg)
           \/ MergeRunEnd(arg)
           \/ MergeClasses(arg)
           \/ MergeClass(arg)
           \/ MergeTest(arg)
           \/ MergeTestsDone(arg)
           \/ MergeArguments(arg)
           \/ MergeExtraInfo(arg)
           \/ MergeParents(arg)
           \/ MergeDone

Kill ==
    /\ todo # <<>>
    /\ kills < MaxKills
    /\ kills' = kills + 1
    /\ Over
    /\ UNCHANGED <<copies, sessions, merges>>

Next ==
    \/ StartSession
    \/ RunnerStep
    \/ StartMerge
    \/ MergeStep
    \/ Kill

Spec == Init /\ [][Next]_vars

-----------------------------------------------------------------------------
(* Properties.                                                             *)

\* Whatever is found on disk, after a kill of the runner or of a merge too,
\* every id in a row is the id of a row that is there, and nothing refers to
\* what was rolled back.  Of a parent this says no more: the row that is there
\* need not be the one that was meant (ParentsAreMapped).
ReferencesResolve ==
    \A d \in DBs :
        LET t == disk[d]
        IN  /\ \A r \in Range(t.testrun) : r.client \in DOMAIN t.client
            /\ \A r \in Range(t.test) :
                  /\ r.testrun \in DOMAIN t.testrun
                  /\ r.type \in DOMAIN t.testclassinfo
                  /\ r.parent \in DOMAIN t.test \cup {0}
            /\ \A e \in t.entries :
                  e.test \in DOMAIN t.test /\ e.name \in DOMAIN t.names[e.kind]

\* A row that was merged is of the class and has the result of the row it was
\* copied from, in a run of the same client, and no name that the original
\* does not have, although every id was given out anew.
CopiesAgree ==
    \A p \in copies :
        LET old == db[From].test[p.old]
            new == db[To].test[p.new]
        IN  /\ new.type = TypeID(db[To], TypeName(db[From], p.old))
            /\ new.rated = old.rated
            /\ db[To].client[db[To].testrun[new.testrun].client] = ClientOfRun(old.testrun)
            /\ \A k \in Kinds :
                  NamesOf(db[To], k, p.new) \subseteq NamesOf(db[From], k, p.old)

\* A merge changes no row of test and drops no entry that the destination
\* has, its own or merged before; only the parents of rows of the run that is
\* being merged are written once more.
MergeOnlyAdds ==
    [][MergeStep =>
        /\ disk'[From] = disk[From]
        /\ disk[To].entries \subseteq disk'[To].entries
        /\ \A i \in DOMAIN disk[To].test :
              LET old == disk[To].test[i]
                  new == disk'[To].test[i]
              IN  new = old \/ (/\ old.testrun = Len(disk[To].testrun)
                               /\ new = [old EXCEPT !.parent = new.parent])]_vars

\* "Updating test.parentid with new values" (dbstorage.py 794, 787-789): when
\* the parents of a run are written, a copy whose original has a parent that
\* was copied with it has the copy of that parent.
ParentsAreMapped ==
    [][MergeStep /\ Task("mergeParents") =>
        \A p, q \in copies :
            /\ db[From].test[p.old].parent = q.old
            /\ {db[To].test[p.new].testrun, db[To].test[q.new].testrun}
                   = {Len(db[To].testrun)}
            => disk'[To].test[p.new].parent = q.new]_vars
=============================================================================
