----------------------------- MODULE DBConvert ------------------------------
(***************************************************************************)
(* Opening a database: DBStorage._setUp, with the creation of the tables   *)
(* and the conversion of databases written by older versions               *)
(* (insanity/storage/dbstorage.py, dbconvert.py, sqlite.py, mysql.py).     *)
(*                                                                         *)
(* Until version 2 monitors had tables of their own; version 3 keeps them  *)
(* among the tests.  The conversion reads these tables into memory, drops  *)
(* them and inserts their rows elsewhere, with one commit each, under new  *)
(* ids.  A program can be killed between any two statements.               *)
(*                                                                         *)
(* Values are left out, and of the four dictionaries two: the checklist    *)
(* goes the way of the arguments, the output files of the extra            *)
(* information.  The conversion never gets past ConvertExtraInfo, so that  *)
(* what follows there (the arguments, dropping the columns of blobs and    *)
(* writing the new version) is not in the model.                           *)
(***************************************************************************)
EXTENDS Naturals, FiniteSetsExt, SequencesExt

CONSTANTS
    OldDatabases,    \* contents of databases of version 1 and 2
    Variables,       \* what the environment of a run consists of
    MaxOpens,
    MaxKills

Dictionaries == {"arguments", "extrainfo"}
DB_SCHEME_VERSION == 3

VARIABLES
    engine,          \* "sqlite" or "mysql"
    origin,          \* history: what was in the database before
    disk,            \* what is in it; every statement is committed at once
    prog,            \* "idle", "opening", "ready", "raised"
    stmt,            \* the statement of _setUp that is next
    mem,             \* the rows the conversion has read
    mapping,         \* new ids of the rows it has moved
    opens, kills

openVars == <<engine, origin, disk, prog, stmt, mem, mapping, opens, kills>>

\* version is 0 when table version is empty.  parts tells apart what a
\* statement can find present or absent: table version, the other
\* tables, the index on the types of tests, and column blobvalue of
\* testclassinfo_arguments_dict.  The id of a row is its place.
NoRows == [k \in Dictionaries |-> <<>>]
Empty == [version |-> 0, parts |-> {}, testclassinfo |-> <<>>, test |-> <<>>,
          names |-> NoRows, entries |-> NoRows, env |-> {},
          monitorclassinfo |-> <<>>, monitor |-> <<>>, mnames |-> NoRows,
          mentries |-> NoRows, subtests |-> <<>>]

\* The dictionaries of classes refer to a class by its id, later by its type.
ById(i) == <<"id", i>>
ByType(c) == <<"type", c>>

ClassRows == [type : STRING, parent : STRING]
TestRows == [type : Nat, parent : Nat, ismonitor : BOOLEAN, isscenario : BOOLEAN]
NameRows == [container : ({"id"} \X Nat) \cup ({"type"} \X STRING), name : STRING]
EntryRows == [container : Nat, name : Nat]
EnvRows == [run : Nat, name : STRING, blob : BOOLEAN, text : BOOLEAN]
MonitorRows == [testid : Nat, type : Nat]
MonitorNameRows == [container : Nat, name : STRING]
SubtestRows == [testid : Nat, scenarioid : Nat]
Blobs == {"uname", "env-variables"}
Parts == {"version", "tables", "type index", "class blobs"}
Tables ==
    [version : Nat, parts : SUBSET Parts,
     testclassinfo : Seq(ClassRows), test : Seq(TestRows),
     names : [Dictionaries -> Seq(NameRows)], entries : [Dictionaries -> Seq(EntryRows)],
     env : SUBSET EnvRows,
     monitorclassinfo : Seq(ClassRows), monitor : Seq(MonitorRows),
     mnames : [Dictionaries -> Seq(MonitorNameRows)],
     mentries : [Dictionaries -> Seq(EntryRows)],
     subtests : Seq(SubtestRows)]

\* What a program of version 1 or 2 leaves: every id resolves, a test is the
\* subtest of one scenario, monitors and scenarios are not among the tests
\* (parent, ismonitor and isscenario are columns that the conversion adds), and
\* of the environment uname and the variables are blobs.
IsOld(d) ==
    /\ d \in Tables
    /\ \A i \in DOMAIN d.test : ~d.test[i].ismonitor /\ ~d.test[i].isscenario
    /\ \A i \in DOMAIN d.monitor : /\ d.monitor[i].testid \in DOMAIN d.test
                                   /\ d.monitor[i].type \in DOMAIN d.monitorclassinfo
    /\ \A k \in Dictionaries :
          /\ \A i \in DOMAIN d.names[k] :
                \E c \in DOMAIN d.testclassinfo : d.names[k][i].container = ById(c)
          /\ \A i \in DOMAIN d.entries[k] : d.entries[k][i].container \in DOMAIN d.test
          /\ \A i \in DOMAIN d.mnames[k] :
                d.mnames[k][i].container \in DOMAIN d.monitorclassinfo
          /\ \A i \in DOMAIN d.mentries[k] :
                /\ d.mentries[k][i].container \in DOMAIN d.monitor
                /\ d.mentries[k][i].name \in DOMAIN d.mnames[k]
    /\ \A i \in DOMAIN d.subtests : /\ d.subtests[i].testid \in DOMAIN d.test
                                    /\ d.subtests[i].scenarioid \in DOMAIN d.test
    /\ \A i, j \in DOMAIN d.subtests :
          d.subtests[i].testid = d.subtests[j].testid => d.subtests[i] = d.subtests[j]
    /\ \A r \in d.env : /\ r.text = ~r.blob
                        /\ r.blob => r.name \in Blobs

ASSUME OldDatabasesAssumption == \A d \in OldDatabases : IsOld(d)
ASSUME VariablesAssumption == Variables \subseteq STRING \ {"env-variables"}

\* A statement: what it does, on which dictionary, on which row.
First(op) == [op |-> op, kind |-> "arguments", row |-> 1]
NextRow == [stmt EXCEPT !.row = @ + 1]

NoMapping == [class |-> <<>>, test |-> <<>>, name |-> NoRows]

Labelled(d, v, parts) == [d EXCEPT !.version = v, !.parts = parts]

OpenInit ==
    /\ engine \in {"sqlite", "mysql"}
    /\ \/ disk = Empty
       \/ \E v \in {DB_SCHEME_VERSION, DB_SCHEME_VERSION + 1} :
            disk = Labelled(Empty, v, {"version", "tables"})
       \/ \E d \in OldDatabases :
            \/ disk = Labelled(d, 1, Parts \ {"type index"})
            \/ disk = Labelled(d, 2, Parts)
    /\ origin = disk
    /\ prog = "idle"
    /\ stmt = First("none")
    /\ mem = Empty
    /\ mapping = NoMapping
    /\ opens = 0
    /\ kills = 0

-----------------------------------------------------------------------------
(* The order of the statements.                                            *)

\* Mutant: the version first.
CreateTablesVersionEarly == <<"create version", "insert version", "create tables">>

CreateTables == <<"create version", "create tables", "insert version">>

UpdateTables(fromversion) ==
    First(IF fromversion < 2 THEN "create type index" ELSE "read")

Program == <<engine, origin, opens, kills>>
Todo(op) == prog = "opening" /\ stmt.op = op
Creating(what) == Todo("create") /\ CreateTables[stmt.row] = what

Go(next) ==
    /\ stmt' = next
    /\ prog' = "opening"
    /\ UNCHANGED Program

\* A statement that changes the database and gives no id back.
Execute(d, next) ==
    /\ disk' = d
    /\ Go(next)
    /\ UNCHANGED <<mem, mapping>>

\* An exception: the storage is not set up.
Raise ==
    /\ prog' = "raised"
    /\ UNCHANGED <<Program, disk, stmt, mem, mapping>>

\* The last statement of _createTables ends _setUp.
Create(d) ==
    /\ disk' = d
    /\ stmt' = NextRow
    /\ prog' = IF stmt.row < Len(CreateTables) THEN "opening" ELSE "ready"
    /\ UNCHANGED <<Program, mem, mapping>>

\* The loops over what was read.
Rows ==
    CASE stmt.op = "move class" -> mem.monitorclassinfo
      [] stmt.op = "move monitor" -> mem.monitor
      [] stmt.op = "move name" -> mem.mnames[stmt.kind]
      [] stmt.op = "move entry" -> mem.mentries[stmt.kind]
      [] stmt.op = "mark subtest" -> mem.subtests
Each(op) == Todo(op) /\ stmt.row <= Len(Rows)

\* What follows is done for the other dictionary, or is something else.
Then(op) ==
    IF stmt.kind = "arguments" THEN [First(stmt.op) EXCEPT !.kind = "extrainfo"]
                               ELSE First(op)

LoopEnds ==
    /\ prog = "opening"
    /\ stmt.op \in {"move class", "move monitor", "move name", "move entry", "mark subtest"}
    /\ stmt.row > Len(Rows)
    /\ Go(CASE stmt.op = "move class" -> First("move monitor")
            [] stmt.op = "move monitor" -> First("name containers")
            [] stmt.op = "move name" -> Then("move entry")
            [] stmt.op = "move entry" -> Then("mark subtest")
            [] stmt.op = "mark subtest" -> First("select environment"))
    /\ UNCHANGED <<disk, mem, mapping>>

-----------------------------------------------------------------------------
(* Doing the statements.                                                   *)

\* _getDatabaseSchemeVersion, with 0 for None.
SchemeVersion == IF "version" \in disk.parts THEN disk.version ELSE 0

\* _setUp.
Open ==
    /\ prog = "idle"
    /\ opens < MaxOpens
    /\ opens' = opens + 1
    /\ \/ /\ SchemeVersion >= DB_SCHEME_VERSION
          /\ prog' = "ready"
          /\ UNCHANGED stmt
       \/ /\ SchemeVersion < DB_SCHEME_VERSION
          /\ prog' = "opening"
          /\ stmt' = IF SchemeVersion = 0 THEN First("create")
                                          ELSE UpdateTables(SchemeVersion)
    /\ UNCHANGED <<engine, origin, disk, mem, mapping, kills>>

CreateVersion ==
    /\ Creating("create version")
    /\ IF "version" \in disk.parts
       THEN Raise
       ELSE Create([disk EXCEPT !.parts = @ \cup {"version"}])

CreateOtherTables ==
    /\ Creating("create tables")
    /\ Create([disk EXCEPT !.parts = @ \cup {"tables"}])

InsertVersion ==
    /\ Creating("insert version")
    /\ Create([disk EXCEPT !.version = DB_SCHEME_VERSION])

CreateTypeIndex ==
    /\ Todo("create type index")
    /\ IF "type index" \in disk.parts
       THEN Raise
       ELSE Execute([disk EXCEPT !.parts = @ \cup {"type index"}], First("read"))

\* The first SELECT fails on a database of which the column is gone.
ReadTables ==
    /\ Todo("read")
    /\ IF "class blobs" \notin disk.parts
       THEN Raise
       ELSE /\ mem' = disk
            /\ Go(First("alter"))
            /\ UNCHANGED <<disk, mapping>>

\* create2to3.  ALTER TABLE ... CHANGE is not known to SQLite.
AlterTables ==
    /\ Todo("alter")
    /\ IF engine = "sqlite"
       THEN Raise
       ELSE Execute([disk EXCEPT !.parts = @ \ {"class blobs"}], First("drop mnames"))

\* The tables of monitors and subtests, in the order they go.
DropTables ==
    \/ /\ Todo("drop mnames")
       /\ Execute([disk EXCEPT !.mnames = NoRows], First("drop subtests"))
    \/ /\ Todo("drop subtests")
       /\ Execute([disk EXCEPT !.subtests = <<>>], First("drop monitor"))
    \/ /\ Todo("drop monitor")
       /\ Execute([disk EXCEPT !.monitor = <<>>], First("drop monitorclassinfo"))
    \/ /\ Todo("drop monitorclassinfo")
       /\ Execute([disk EXCEPT !.monitorclassinfo = <<>>], First("drop mentries"))
    \/ /\ Todo("drop mentries")
       /\ Execute([disk EXCEPT !.mentries = NoRows], First("move class"))

MoveClass ==
    /\ Each("move class")
    /\ disk' = [disk EXCEPT !.testclassinfo = Append(@, mem.monitorclassinfo[stmt.row])]
    /\ mapping' = [mapping EXCEPT !.class = Append(@, Len(disk.testclassinfo) + 1)]
    /\ Go(NextRow)
    /\ UNCHANGED mem

MoveMonitor ==
    /\ Each("move monitor")
    /\ LET m == mem.monitor[stmt.row] IN
        disk' = [disk EXCEPT !.test =
                    Append(@, [type |-> mapping.class[m.type], parent |-> m.testid,
                               ismonitor |-> TRUE, isscenario |-> FALSE])]
    /\ mapping' = [mapping EXCEPT !.test = Append(@, Len(disk.test) + 1)]
    /\ Go(NextRow)
    /\ UNCHANGED mem

\* One executemany for each dictionary.
NameContainers ==
    /\ Todo("name containers")
    /\ LET read == mem.names[stmt.kind]
           ClassOf(i) == mem.testclassinfo[read[i].container[2]].type
       IN  Execute([disk EXCEPT !.names[stmt.kind] =
                       [i \in DOMAIN read |->
                           [@[i] EXCEPT !.container = ByType(ClassOf(i))]]],
                   Then("move name"))

MoveName ==
    /\ Each("move name")
    /\ LET n == mem.mnames[stmt.kind][stmt.row]
           class == mem.monitorclassinfo[n.container].type
       IN  disk' = [disk EXCEPT !.names[stmt.kind] =
                       Append(@, [container |-> ByType(class), name |-> n.name])]
    /\ mapping' = [mapping EXCEPT !.name[stmt.kind] =
                      Append(@, Len(disk.names[stmt.kind]) + 1)]
    /\ Go(NextRow)
    /\ UNCHANGED mem

\* Mutant: the id that the name had among the names of monitors.
MoveEntryOldName ==
    /\ Each("move entry")
    /\ LET e == mem.mentries[stmt.kind][stmt.row]
       IN  Execute([disk EXCEPT !.entries[stmt.kind] =
                       Append(@, [container |-> mapping.test[e.container],
                                  name |-> e.name])],
                   NextRow)

MoveEntry ==
    /\ Each("move entry")
    /\ LET e == mem.mentries[stmt.kind][stmt.row]
       IN  Execute([disk EXCEPT !.entries[stmt.kind] =
                       Append(@, [container |-> mapping.test[e.container],
                                  name |-> mapping.name[stmt.kind][e.name]])],
                   NextRow)

MarkSubtest ==
    /\ Each("mark subtest")
    /\ LET s == mem.subtests[stmt.row] IN
        Execute([disk EXCEPT !.test[s.testid].parent = s.scenarioid,
                             !.test[s.testid].ismonitor = FALSE],
                [stmt EXCEPT !.op = "mark scenario"])

MarkScenario ==
    /\ Todo("mark scenario")
    /\ LET s == mem.subtests[stmt.row] IN
        Execute([disk EXCEPT !.test[s.scenarioid].ismonitor = FALSE,
                             !.test[s.scenarioid].isscenario = TRUE],
                [NextRow EXCEPT !.op = "mark subtest"])

\* testrun_env_2to3: of the rows with a blob, in any order, uname is converted
\* in place, the variables are deleted and replaced by a row for each.
SelectEnvironment ==
    /\ Todo("select environment")
    /\ mem' = [mem EXCEPT !.env = {r \in disk.env : r.blob /\ r.name \in Blobs}]
    /\ Go(First("environment"))
    /\ UNCHANGED <<disk, mapping>>

ConvertRow ==
    /\ Todo("environment")
    /\ \E r \in mem.env :
          /\ r.name = "uname"
          /\ disk' = [disk EXCEPT !.env = (@ \ {r}) \cup {[r EXCEPT !.text = TRUE]}]
          /\ mem' = [mem EXCEPT !.env = @ \ {r}]
    /\ Go(stmt)
    /\ UNCHANGED mapping

\* The row of the statement is the run.
DeleteRow ==
    /\ Todo("environment")
    /\ \E r \in mem.env :
          /\ r.name = "env-variables"
          /\ disk' = [disk EXCEPT !.env = @ \ {r}]
          /\ mem' = [mem EXCEPT !.env = @ \ {r}]
          /\ Go([First("insert variables") EXCEPT !.row = r.run])
    /\ UNCHANGED mapping

\* Mutant: one variable only.
InsertVariablesFirst ==
    /\ Todo("insert variables")
    /\ Execute([disk EXCEPT !.env =
                   @ \cup {[run |-> stmt.row, name |-> CHOOSE v \in Variables : TRUE,
                            blob |-> FALSE, text |-> TRUE]}],
               First("environment"))

InsertVariables ==
    /\ Todo("insert variables")
    /\ Execute([disk EXCEPT !.env =
                   @ \cup {[run |-> stmt.row, name |-> v, blob |-> FALSE, text |-> TRUE] :
                             v \in Variables}],
               First("environment"))

\* test_extrainfo_2to3 calls test_extrainfo_nonblob_2to3, which does not exist.
ConvertExtraInfo ==
    /\ Todo("environment")
    /\ mem.env = {}
    /\ Raise

Leave ==
    /\ prog \in {"ready", "raised"}
    /\ prog' = "idle"
    /\ mem' = Empty
    /\ mapping' = NoMapping
    /\ UNCHANGED <<Program, disk, stmt>>

Kill ==
    /\ prog = "opening"
    /\ kills < MaxKills
    /\ kills' = kills + 1
    /\ prog' = "idle"
    /\ mem' = Empty
    /\ mapping' = NoMapping
    /\ UNCHANGED <<engine, origin, disk, stmt, opens>>

OpenNext ==
    \/ Open \/ Leave \/ Kill
    \/ CreateVersion \/ CreateOtherTables \/ InsertVersion
    \/ CreateTypeIndex \/ ReadTables \/ AlterTables \/ DropTables
    \/ MoveClass \/ MoveMonitor \/ NameContainers \/ MoveName \/ MoveEntry
    \/ MarkSubtest \/ MarkScenario \/ LoopEnds
    \/ SelectEnvironment \/ ConvertRow \/ DeleteRow \/ InsertVariables
    \/ ConvertExtraInfo

OpenSpec == OpenInit /\ [][OpenNext]_openVars

-----------------------------------------------------------------------------
(* Properties.                                                             *)

\* What a database says of a monitor and of a class, without ids: origin in
\* the tables of version 2, disk in those of version 3.
EntriesOf(rows, i) == {e \in ToSet(rows) : e.container = i}

OldMonitor(i) ==
    LET Class(c) == origin.monitorclassinfo[c].type
        Says(k, n) == <<k, Class(n.container), n.name>>
        m == origin.monitor[i]
    IN  [test |-> m.testid, class |-> Class(m.type),
         says |-> UNION {{Says(k, origin.mnames[k][e.name]) :
                              e \in EntriesOf(origin.mentries[k], i)} : k \in Dictionaries}]

NewMonitor(i) ==
    LET Says(k, n) == <<k, n.container[2], n.name>>
        m == disk.test[i]
    IN  [test |-> m.parent, class |-> disk.testclassinfo[m.type].type,
         says |-> UNION {{Says(k, disk.names[k][e.name]) :
                              e \in EntriesOf(disk.entries[k], i)} : k \in Dictionaries}]

OldMonitors == DOMAIN origin.monitor
NewMonitors == {i \in DOMAIN disk.test : disk.test[i].ismonitor}

\* The names of kind k, each with the class that declares it.
OldNames(k) ==
    {[class |-> origin.testclassinfo[n.container[2]].type, name |-> n.name] :
        n \in ToSet(origin.names[k])}
    \cup {[class |-> origin.monitorclassinfo[n.container].type, name |-> n.name] :
        n \in ToSet(origin.mnames[k])}
NewNames(k) ==
    {[class |-> n.container[2], name |-> n.name] :
        n \in {m \in ToSet(disk.names[k]) : m.container[1] = "type"}}

\* The environment of a run, in whichever form.
Says(env) ==
    {<<r.run, r.name>> : r \in {x \in env : x.name # "env-variables"}}
    \cup {<<r.run, v>> : r \in {x \in env : x.name = "env-variables"}, v \in Variables}

Untouched == disk = [origin EXCEPT !.version = disk.version, !.parts = disk.parts]

Converted ==
    /\ \A m \in {OldMonitor(i) : i \in OldMonitors} :
          Cardinality({i \in NewMonitors : NewMonitor(i) = m})
              = Cardinality({i \in OldMonitors : OldMonitor(i) = m})
    /\ ToSet(origin.monitorclassinfo) \subseteq ToSet(disk.testclassinfo)
    /\ \A k \in Dictionaries : OldNames(k) \subseteq NewNames(k)
    /\ \A s \in ToSet(origin.subtests) :
          /\ disk.test[s.testid].parent = s.scenarioid
          /\ disk.test[s.scenarioid].isscenario
    /\ Says(disk.env) = Says(origin.env)
    /\ \A r \in disk.env : r.text

\* Unless a program is killed, no attempt to open an old database loses
\* anything: afterwards everything is where it was, or it has been moved,
\* although the monitors were only in memory for a while and the attempt
\* ends with an exception.
NothingLost ==
    kills = 0 /\ prog # "opening" => Untouched \/ Converted

\* At any moment, whatever was killed before, what has been moved says what
\* the old tables said (of the right class, test and names, although every
\* id has changed), and no monitor is there twice.
MovedAgree ==
    /\ \A i \in NewMonitors :
          LET new == NewMonitor(i)
              Same(m) == m.test = new.test /\ m.class = new.class
          IN  /\ \E j \in OldMonitors :
                    Same(OldMonitor(j)) /\ new.says \subseteq OldMonitor(j).says
              /\ Cardinality({j \in NewMonitors : Same(NewMonitor(j))})
                    <= Cardinality({j \in OldMonitors : Same(OldMonitor(j))})
    /\ \A k \in Dictionaries : NewNames(k) \subseteq OldNames(k)

\* A storage that is ready works on the tables of its version: a database of
\* which the creation or the conversion was cut short is never used.
ReadyIsWhole ==
    prog = "ready" /\ disk.version <= DB_SCHEME_VERSION =>
        /\ disk.version = DB_SCHEME_VERSION
        /\ {"version", "tables"} \subseteq disk.parts
        /\ disk.monitor = <<>>
=============================================================================
