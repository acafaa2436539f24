-------------------------- MODULE DBStorageProofs ---------------------------
(***************************************************************************)
(* What the storage writes, for any number of tests, iterations, monitors  *)
(* and reports, however far the worker is behind.                          *)
(*                                                                         *)
(* The argument: the writes of one test stand in the queue in the order of *)
(* its life (Order), so that when the worker gets to a stop, the latest    *)
(* row of the test is the one of that iteration, and nothing was stored in *)
(* it yet (PendingBook).  A row that has results but not all of them is    *)
(* the one the worker is at, or one it gave up (WorkerBook).  Until the    *)
(* storage is closed, an iteration is stored, or the writes that store it  *)
(* are queued or still to come (WholeBook).                                *)
(***************************************************************************)
EXTENDS DBStorage, SequenceTheorems, FiniteSetTheorems, TLAPS

-----------------------------------------------------------------------------
(* The invariant.                                                          *)

Pending == {queue[j] : j \in DOMAIN queue}

\* Writes of one test, in this order.
Precedes(v, w) ==
    /\ v.what # "finished"
    /\ v.iteration <= w.iteration
    /\ v.iteration = w.iteration =>
          \/ v.what = "started" /\ w.what # "started"
          \/ v.what = "stopped" /\ w.what = "finished"

\* What may stand before what.
Order(v, w) ==
    /\ v.what # "close"
    /\ v.what = "end" => w.what = "close"
    /\ v \in TestWrites /\ w \in TestWrites /\ v.test = w.test => Precedes(v, w)

QueueOrder == \A j, k \in DOMAIN queue : j < k => Order(queue[j], queue[k])

QueueBook ==
    /\ QueueOrder
    /\ RunWrite("end") \in Pending => runState \in {"ended", "cut"}
    /\ RunWrite("close") \in Pending \/ calledBack => mode = "async" /\ closing
    /\ calledBack => queue = <<>> /\ job = NoJob

\* A row of a test, for the states of the tests and what has raised.
RowFits(row, its, phases, stops, failed) ==
    /\ row.iteration <= its[row.of]
    /\ phases[row.of] # "idle"
    /\ row.results \in {None, row.iteration}
    /\ row.perc \in {None, row.iteration, Overall}
    /\ row.perc # None /\ <<row.of, row.iteration>> \notin failed =>
          \/ row.results = row.iteration /\ row.infos
          \/ row.perc = Overall /\ row.results = None
    /\ row.results # None =>
          /\ row.items >= stops[row.of][row.iteration]
          /\ phases[row.of] = "running" => row.iteration < its[row.of]

OwnRows(tb) ==
    \A k, l \in TestRows(tb) :
        tb.tests[l].of = tb.tests[k].of /\ tb.tests[l].iteration = tb.tests[k].iteration => l = k

RowsFit(tb, its, phases, stops, failed) ==
    OwnRows(tb) /\ \A k \in TestRows(tb) : RowFits(tb.tests[k], its, phases, stops, failed)

\* The rows of tests in tb, which is what the connection sees or the disk.
RowBook(tb) == RowsFit(tb, iter, phase, atStop, raised)

ItemsBook ==
    \A t \in Tests :
        /\ phase[t] = "idle" => iter[t] = 0
        /\ \A i \in Iterations :
              /\ items[t][i] >= atStop[t][i]
              /\ i > iter[t] => atStop[t][i] = 0

\* The map __tests.
MapBook(t) ==
    IF tests[t] = 0
    THEN \A k \in TestRows(tables) : tables.tests[k].of # t
    ELSE tests[t] \in TestRows(tables) /\ tables.tests[tests[t]].of = t

\* A row that is not complete is the one that the worker is at.
CompleteBook(k) ==
    LET row == tables.tests[k]
    IN  \/ row.results = None
        \/ row.infos
        \/ <<row.of, row.iteration>> \in raised
        \/ job.what = "stopped" /\ k = tests[job.test]

WorkerBook ==
    /\ \A t \in Tests : MapBook(t)
    /\ \A k \in TestRows(tables) : CompleteBook(k)
    /\ job.what = "stopped" =>
          /\ tests[job.test] # 0
          /\ tables.tests[tests[job.test]].iteration = job.iteration
          /\ tables.tests[tests[job.test]].results = job.iteration
    /\ tables.run # "none" => tables.env

\* The latest row of t is of iteration i, and nothing is stored in it.
Fresh(t, i) ==
    /\ tests[t] # 0
    /\ tables.tests[tests[t]].iteration = i
    /\ tables.tests[tests[t]].results = None
    /\ tables.tests[tests[t]].perc = None

\* What is known of a write of iteration i of t while it is queued.
PendingFits(what, t, i) ==
    /\ i <= iter[t]
    /\ phase[t] # "idle"
    /\ what = "started" =>
          /\ i > 0
          /\ \A k \in TestRows(tables) :
                tables.tests[k].of = t => tables.tests[k].iteration < i
    /\ what = "stopped" =>
          /\ phase[t] = "running" => i < iter[t]
          /\ \/ Write("started", t, i) \in Pending
             \/ Fresh(t, i)
             \/ i = 0 /\ tests[t] = 0
    /\ what = "finished" => phase[t] = "done"

PendingBook ==
    \A w \in TestWrites : w \in Pending => PendingFits(w.what, w.test, w.iteration)

Accepts == ~(mode = "async" /\ closing)

MainBook ==
    Accepts => \A t \in Tests : phase[t] = "running" =>
        Write("started", t, iter[t]) \in Pending \/ Fresh(t, iter[t])

\* Every write so far was accepted, and there are no more after the run.
Whole == Accepts \/ runState = "ended"

EndBook ==
    runState = "ended" =>
        /\ \A t \in Tests : phase[t] = "done" \/ (phase[t] = "stopped" /\ iter[t] = 0)
        /\ \/ RunWrite("end") \in Pending
           \/ /\ Pending \subseteq {RunWrite("close")}
              /\ job = NoJob
              /\ tables = disk
              /\ disk.run = "stopped"
              /\ disk.env

\* The stop of iteration i is queued or still to come.
Covered(t, i) ==
    \/ Write("stopped", t, i) \in Pending
    \/ i = iter[t] /\ phase[t] = "running"

Recorded(k, t, i) ==
    /\ k \in TestRows(tables)
    /\ tables.tests[k].of = t
    /\ tables.tests[k].iteration = i
    /\ \/ StoredInFull(tables.tests[k])
       \/ Covered(t, i)
       \/ job.what = "stopped" /\ k = tests[job.test]

IterationBook(t, i) ==
    \/ Write("started", t, i) \in Pending /\ Covered(t, i)
    \/ \E k \in DOMAIN tables.tests : Recorded(k, t, i)

MonitorRows(t) ==
    {k \in DOMAIN tables.tests :
        tables.tests[k].monitor /\ tables.tests[k].of = t /\ tables.tests[k].results # None}

Finishing(t) == Write("finished", t, iter[t]) \in Pending

NothingPending(t) == \A w \in TestWrites : w \in Pending => w.test # t

MonitorsLeft(t) == IF job.what = "monitors" /\ job.test = t THEN job.iteration ELSE 0

MonitorBook(t) ==
    /\ phase[t] = "done" => Finishing(t) \/ NothingPending(t)
    /\ IsFiniteSet(MonitorRows(t))
    /\ phase[t] # "done" \/ Finishing(t) => MonitorRows(t) = {}
    /\ ~(phase[t] # "done" \/ Finishing(t)) /\ tests[t] # 0 =>
          Cardinality(MonitorRows(t)) = NMonitors - MonitorsLeft(t)

WholeBook ==
    Whole => \A t \in Tests :
        (\A i \in Iterations : i > 0 /\ i <= iter[t] => IterationBook(t, i)) /\ MonitorBook(t)

JobBook ==
    job.what = "monitors" =>
        /\ job.iteration \in 1..NMonitors
        /\ tests[job.test] # 0
        /\ phase[job.test] = "done"
        /\ NothingPending(job.test)

SInv ==
    /\ TypeOK
    /\ QueueBook
    /\ RowBook(tables)
    /\ RowBook(disk)
    /\ ItemsBook
    /\ ~calledBack => WorkerBook /\ PendingBook /\ MainBook
    /\ EndBook
    /\ WholeBook
    /\ JobBook

-----------------------------------------------------------------------------
(* Values, and the queue.                                                  *)

LEMMA Values ==
    /\ NIters \in Nat /\ NMonitors \in Nat
    /\ Iterations \subseteq Nat /\ 0 \in Iterations
    /\ None \in Nat /\ Overall \in Nat
    /\ None \notin Iterations /\ Overall \notin Iterations /\ None # Overall
    /\ \A i \in Iterations : i <= NIters /\ i # None /\ i # Overall
BY DBStorageAssumption DEF DBStorageAssumption, Iterations, None, Overall

LEMMA WriteFields ==
    /\ \A what \in {"started", "stopped", "finished"}, t \in Tests, i \in Iterations :
          /\ Write(what, t, i) \in TestWrites
          /\ Write(what, t, i).what = what
          /\ Write(what, t, i).test = t
          /\ Write(what, t, i).iteration = i
    /\ \A w \in TestWrites :
          /\ w.what \in {"started", "stopped", "finished"}
          /\ w.test \in Tests
          /\ w.iteration \in Iterations
          /\ w = Write(w.what, w.test, w.iteration)
    /\ \A what \in {"begin", "end", "close", "none"} :
          /\ RunWrite(what).what = what
          /\ RunWrite(what) \notin TestWrites
    /\ \A w \in Writes : w.what \notin {"started", "stopped", "finished"} =>
          w = RunWrite(w.what) /\ w.what \in {"begin", "end", "close"}
  <1>1. \A what \in {"begin", "end", "close", "none"} :
            RunWrite(what).what = what /\ RunWrite(what) \notin TestWrites
    BY DEF RunWrite, TestWrites
  <1>2. \A w \in Writes : w.what \notin {"started", "stopped", "finished"} =>
            w = RunWrite(w.what) /\ w.what \in {"begin", "end", "close"}
    BY <1>1 DEF Writes, TestWrites
  <1>3. /\ \A what \in {"started", "stopped", "finished"}, t \in Tests, i \in Iterations :
              /\ Write(what, t, i) \in TestWrites
              /\ Write(what, t, i).what = what
              /\ Write(what, t, i).test = t
              /\ Write(what, t, i).iteration = i
        /\ \A w \in TestWrites :
              /\ w.what \in {"started", "stopped", "finished"}
              /\ w.test \in Tests
              /\ w.iteration \in Iterations
              /\ w = Write(w.what, w.test, w.iteration)
    BY DEF Write, TestWrites
  <1> QED
    BY <1>1, <1>2, <1>3

\* A write is queued.
LEMMA Enqueued ==
    ASSUME queue \in Seq(Writes), NEW w \in Writes, queue' = Append(queue, w)
    PROVE  /\ queue' \in Seq(Writes)
           /\ Pending' = Pending \cup {w}
           /\ QueueOrder /\ (\A v \in Pending : Order(v, w)) => QueueOrder'
  <1>1. /\ queue' \in Seq(Writes)
        /\ Len(queue') = Len(queue) + 1
        /\ \A j \in 1..Len(queue) : queue'[j] = queue[j]
        /\ queue'[Len(queue) + 1] = w
    BY AppendProperties
  <1>2. /\ Len(queue) \in Nat /\ DOMAIN queue = 1..Len(queue)
        /\ DOMAIN queue' = 1..(Len(queue) + 1)
    BY <1>1, LenProperties
  <1>3. Pending' = Pending \cup {w}
    <2>1. ASSUME NEW v \in Pending'
          PROVE  v \in Pending \cup {w}
      <3>1. PICK j \in DOMAIN queue' : v = queue'[j]
        BY DEF Pending
      <3>2. j \in DOMAIN queue \/ j = Len(queue) + 1
        BY <1>2
      <3> QED
        BY <1>1, <1>2, <3>1, <3>2 DEF Pending
    <2>2. \A j \in DOMAIN queue : j \in DOMAIN queue' /\ queue'[j] = queue[j]
      BY <1>1, <1>2
    <2>3. Len(queue) + 1 \in DOMAIN queue'
      BY <1>2
    <2> QED
      BY <1>1, <2>1, <2>2, <2>3 DEF Pending
  <1>4. ASSUME QueueOrder, \A v \in Pending : Order(v, w)
        PROVE  \A j, k \in DOMAIN queue' : j < k => Order(queue'[j], queue'[k])
    <2> SUFFICES ASSUME NEW j \in DOMAIN queue', NEW k \in DOMAIN queue', j < k
                 PROVE  Order(queue'[j], queue'[k])
      OBVIOUS
    <2>1. j \in DOMAIN queue /\ queue'[j] = queue[j]
      BY <1>1, <1>2
    <2>2. CASE k \in DOMAIN queue
      BY <2>1, <2>2, <1>1, <1>2, <1>4 DEF QueueOrder
    <2>3. CASE k = Len(queue) + 1
      BY <2>1, <2>3, <1>1, <1>4 DEF Pending
    <2> QED
      BY <1>2, <2>2, <2>3
  <1>5. QueueOrder' <=> \A j, k \in DOMAIN queue' : j < k => Order(queue'[j], queue'[k])
    BY DEF QueueOrder, Order, Precedes
  <1> QED
    BY <1>1, <1>3, <1>4, <1>5

\* A write is taken.
LEMMA Dequeued ==
    ASSUME queue \in Seq(Writes), queue # <<>>, queue' = Tail(queue),
           QueueOrder
    PROVE  /\ Head(queue) \in Writes
           /\ queue' \in Seq(Writes)
           /\ Pending = Pending' \cup {Head(queue)}
           /\ \A v \in Pending' : v \in Writes /\ Order(Head(queue), v)
           /\ QueueOrder'
  <1>1. /\ Head(queue) \in Writes /\ Head(queue) = queue[1]
        /\ queue' \in Seq(Writes)
        /\ Len(queue') = Len(queue) - 1
        /\ \A j \in 1..Len(queue') : queue'[j] = queue[j + 1]
    BY HeadTailProperties
  <1>2. /\ Len(queue) \in Nat /\ Len(queue) >= 1 /\ DOMAIN queue = 1..Len(queue)
        /\ DOMAIN queue' = 1..(Len(queue) - 1)
    BY <1>1, LenProperties, EmptySeq
  <1>3. \A j \in DOMAIN queue' : j + 1 \in DOMAIN queue /\ queue'[j] = queue[j + 1] /\ 1 < j + 1
    BY <1>1, <1>2
  <1>4. \A j \in DOMAIN queue : j # 1 => j - 1 \in DOMAIN queue' /\ queue'[j - 1] = queue[j]
    BY <1>1, <1>2
  <1>5. 1 \in DOMAIN queue
    BY <1>2
  <1>6. Pending = Pending' \cup {Head(queue)}
    <2>1. Pending' = {queue'[j] : j \in DOMAIN queue'}
      BY DEF Pending
    <2>2. \A v \in Pending' : v \in Pending
      BY <2>1, <1>3 DEF Pending
    <2>3. \A v \in Pending : v \in Pending' \/ v = Head(queue)
      BY <2>1, <1>1, <1>4 DEF Pending
    <2>4. Head(queue) \in Pending
      BY <1>1, <1>5 DEF Pending
    <2> QED
      BY <2>2, <2>3, <2>4
  <1>7. \A v \in Pending' : v \in Writes /\ Order(Head(queue), v)
    <2>1. \A j \in DOMAIN queue' : queue'[j] \in Writes
      BY <1>1, ElementOfSeq, LenProperties
    <2> QED
      BY <1>1, <1>3, <1>5, <2>1 DEF Pending, QueueOrder
  <1>8. \A j, k \in DOMAIN queue' : j < k => Order(queue'[j], queue'[k])
    <2>1. \A j, k \in DOMAIN queue' : j < k => j + 1 < k + 1
      BY <1>2
    <2> QED
      BY <1>3, <2>1 DEF QueueOrder
  <1>9. QueueOrder' <=> \A j, k \in DOMAIN queue' : j < k => Order(queue'[j], queue'[k])
    BY DEF QueueOrder, Order, Precedes
  <1> QED
    BY <1>1, <1>6, <1>7, <1>8, <1>9

-----------------------------------------------------------------------------
(* The tables.                                                             *)

LEMMA TableTypes ==
    ASSUME NEW tb \in DBType
    PROVE  /\ tb.run \in {"none", "begun", "stopped"}
           /\ tb.env \in BOOLEAN
           /\ tb.tests \in Seq(RowType)
           /\ Len(tb.tests) \in Nat
           /\ DOMAIN tb.tests = 1..Len(tb.tests)
           /\ \A k \in DOMAIN tb.tests :
                 /\ k \in Nat /\ k # 0
                 /\ tb.tests[k] \in RowType
                 /\ tb.tests[k].of \in Tests
                 /\ tb.tests[k].iteration \in Iterations
                 /\ tb.tests[k].results \in Iterations \cup {None}
                 /\ tb.tests[k].items \in Nat
                 /\ tb.tests[k].infos \in BOOLEAN
                 /\ tb.tests[k].perc \in Iterations \cup {Overall, None}
                 /\ tb.tests[k].parent \in Nat
                 /\ tb.tests[k].monitor \in BOOLEAN
  <1>1. /\ tb.run \in {"none", "begun", "stopped"}
        /\ tb.env \in BOOLEAN
        /\ tb.tests \in Seq(RowType)
    BY DEF DBType
  <1>2. Len(tb.tests) \in Nat /\ DOMAIN tb.tests = 1..Len(tb.tests)
    BY <1>1, LenProperties
  <1>3. \A k \in DOMAIN tb.tests : k \in Nat /\ k # 0 /\ tb.tests[k] \in RowType
    BY <1>1, <1>2, ElementOfSeq
  <1>4. ASSUME NEW row \in RowType
        PROVE  /\ row.of \in Tests
               /\ row.iteration \in Iterations
               /\ row.results \in Iterations \cup {None}
               /\ row.items \in Nat
               /\ row.infos \in BOOLEAN
               /\ row.perc \in Iterations \cup {Overall, None}
               /\ row.parent \in Nat
               /\ row.monitor \in BOOLEAN
    BY DEF RowType
  <1> QED
    BY <1>1, <1>2, <1>3, <1>4

LEMMA NewRow ==
    ASSUME NEW t \in Tests, NEW i \in Iterations
    PROVE  LET row == Row(t, i, FALSE)
           IN  /\ row \in RowType
               /\ row.of = t
               /\ row.iteration = i
               /\ row.results = None
               /\ row.perc = None
               /\ row.monitor = FALSE
  <1>1. 0 \in Nat /\ NULL \in Nat
    BY DEF NULL
  <1> QED
    BY <1>1 DEF Row, RowType

LEMMA Inserted ==
    ASSUME NEW tb \in DBType, NEW row \in RowType
    PROVE  LET u == Insert(tb, row)
           IN  /\ u \in DBType
               /\ u.run = tb.run
               /\ u.env = tb.env
               /\ DOMAIN u.tests = DOMAIN tb.tests \cup {LastId(u)}
               /\ LastId(u) \notin DOMAIN tb.tests
               /\ LastId(u) \in Nat /\ LastId(u) # 0
               /\ u.tests[LastId(u)] = row
               /\ \A k \in DOMAIN tb.tests : u.tests[k] = tb.tests[k]
  <1> DEFINE s == Append(tb.tests, row)
             u == [tb EXCEPT !.tests = s]
  <1>1. /\ tb.tests \in Seq(RowType)
        /\ Len(tb.tests) \in Nat
        /\ DOMAIN tb.tests = 1..Len(tb.tests)
    BY TableTypes
  <1>2. /\ s \in Seq(RowType)
        /\ Len(s) = Len(tb.tests) + 1
        /\ \A k \in 1..Len(tb.tests) : s[k] = tb.tests[k]
        /\ s[Len(tb.tests) + 1] = row
        /\ DOMAIN s = 1..Len(s)
    BY <1>1, AppendProperties, LenProperties
  <1> HIDE DEF s
  <1>3. /\ u.tests = s
        /\ u.run = tb.run
        /\ u.env = tb.env
        /\ u \in DBType
    BY <1>2 DEF DBType
  <1> HIDE DEF u
  <1>4. /\ DOMAIN u.tests = DOMAIN tb.tests \cup {Len(u.tests)}
        /\ Len(u.tests) \notin DOMAIN tb.tests
        /\ Len(u.tests) \in Nat /\ Len(u.tests) # 0
        /\ u.tests[Len(u.tests)] = row
        /\ \A k \in DOMAIN tb.tests : u.tests[k] = tb.tests[k]
    BY <1>1, <1>2, <1>3
  <1> QED
    BY <1>3, <1>4 DEF Insert, LastId, u, s

LEMMA OpenedRun ==
    ASSUME NEW tb \in DBType
    PROVE  /\ OpenRun(tb) \in DBType
           /\ OpenRun(tb).tests = tb.tests
           /\ OpenRun(tb).run # "none"
           /\ (tb.run # "none" => tb.env) => OpenRun(tb).env
           /\ LET u == [OpenRun(tb) EXCEPT !.env = tb.env]
              IN  u \in DBType /\ u.tests = tb.tests
           /\ LET u == [OpenRun(tb) EXCEPT !.run = "stopped"]
              IN  u \in DBType /\ u.tests = tb.tests /\ u.run = "stopped" /\ u.env = OpenRun(tb).env
  <1>1. /\ OpenRun(tb) \in DBType
        /\ OpenRun(tb).tests = tb.tests
        /\ OpenRun(tb).run # "none"
        /\ (tb.run # "none" => tb.env) => OpenRun(tb).env
    BY DEF OpenRun, DBType
  <1>2. ASSUME NEW v \in DBType, NEW b \in BOOLEAN
        PROVE  /\ LET u == [v EXCEPT !.env = b]
                  IN  u \in DBType /\ u.tests = v.tests
               /\ LET u == [v EXCEPT !.run = "stopped"]
                  IN  u \in DBType /\ u.tests = v.tests /\ u.run = "stopped" /\ u.env = v.env
    BY DEF DBType
  <1>3. tb.env \in BOOLEAN
    BY DEF DBType
  <1> HIDE DEF OpenRun
  <1> QED
    BY <1>1, <1>2, <1>3

\* u is tb with one more row.
Grown(u, tb, id, row) ==
    /\ DOMAIN u.tests = DOMAIN tb.tests \cup {id}
    /\ id \notin DOMAIN tb.tests
    /\ id \in Nat /\ id # 0
    /\ u.tests[id] = row
    /\ \A k \in DOMAIN tb.tests : u.tests[k] = tb.tests[k]

\* u is tb with another row id, which is about the same iteration.
Changed(u, tb, id, row) ==
    /\ DOMAIN u.tests = DOMAIN tb.tests
    /\ id \in DOMAIN tb.tests
    /\ u.tests[id] = row
    /\ \A k \in DOMAIN tb.tests : k # id => u.tests[k] = tb.tests[k]
    /\ row.of = tb.tests[id].of
    /\ row.iteration = tb.tests[id].iteration
    /\ row.monitor = tb.tests[id].monitor

LEMMA InsertedGrown ==
    ASSUME NEW tb \in DBType, NEW v \in DBType, v.tests = tb.tests, NEW row \in RowType
    PROVE  /\ Insert(v, row) \in DBType
           /\ Grown(Insert(v, row), tb, LastId(Insert(v, row)), row)
           /\ Insert(v, row).run = v.run
           /\ Insert(v, row).env = v.env
  BY Inserted DEF Grown

LEMMA SameRows ==
    ASSUME NEW tb, NEW u, u.tests = tb.tests,
           NEW its, NEW phases, NEW stops, NEW failed,
           RowsFit(tb, its, phases, stops, failed)
    PROVE  RowsFit(u, its, phases, stops, failed)
  BY DEF RowsFit, OwnRows, TestRows

LEMMA GrownRows ==
    ASSUME NEW tb, NEW u, NEW id, NEW row, Grown(u, tb, id, row), row.monitor \in BOOLEAN
    PROVE  /\ row.monitor => TestRows(u) = TestRows(tb)
           /\ ~row.monitor => TestRows(u) = TestRows(tb) \cup {id}
           /\ \A k \in TestRows(tb) : u.tests[k] = tb.tests[k] /\ k # id
  BY DEF Grown, TestRows

LEMMA GrownFit ==
    ASSUME NEW tb, NEW u, NEW id, NEW row, Grown(u, tb, id, row), row.monitor \in BOOLEAN,
           NEW its, NEW phases, NEW stops, NEW failed,
           RowsFit(tb, its, phases, stops, failed),
           \/ row.monitor
           \/ /\ RowFits(row, its, phases, stops, failed)
              /\ \A k \in TestRows(tb) :
                    ~(tb.tests[k].of = row.of /\ tb.tests[k].iteration = row.iteration)
    PROVE  RowsFit(u, its, phases, stops, failed)
  <1>1. u.tests[id] = row
    BY DEF Grown
  <1>2. CASE row.monitor
    <2>1. TestRows(u) = TestRows(tb) /\ \A k \in TestRows(tb) : u.tests[k] = tb.tests[k]
      <3>1. row.monitor => TestRows(u) = TestRows(tb)
        BY GrownRows
      <3>2. \A k \in TestRows(tb) : u.tests[k] = tb.tests[k]
        BY GrownRows
      <3> QED
        BY <1>2, <3>1, <3>2
    <2>2. OwnRows(u)
      BY <2>1 DEF RowsFit, OwnRows
    <2>3. \A k \in TestRows(u) : RowFits(u.tests[k], its, phases, stops, failed)
      BY <2>1 DEF RowsFit
    <2> QED
      BY <2>2, <2>3 DEF RowsFit
  <1>3. CASE ~row.monitor
    <2>1. OwnRows(u)
      BY <1>1, <1>3, GrownRows DEF RowsFit, OwnRows
    <2>2. \A k \in TestRows(u) : RowFits(u.tests[k], its, phases, stops, failed)
      BY <1>1, <1>3, GrownRows DEF RowsFit
    <2> QED
      BY <2>1, <2>2 DEF RowsFit
  <1> QED
    BY <1>2, <1>3

LEMMA ChangedRows ==
    ASSUME NEW tb, NEW u, NEW id, NEW row, Changed(u, tb, id, row)
    PROVE  /\ TestRows(u) = TestRows(tb)
           /\ \A k \in DOMAIN tb.tests :
                 /\ u.tests[k].of = tb.tests[k].of
                 /\ u.tests[k].iteration = tb.tests[k].iteration
                 /\ u.tests[k].monitor = tb.tests[k].monitor
  BY DEF Changed, TestRows

LEMMA ChangedFit ==
    ASSUME NEW tb, NEW u, NEW id, NEW row, Changed(u, tb, id, row),
           NEW its, NEW phases, NEW stops, NEW failed,
           RowsFit(tb, its, phases, stops, failed),
           RowFits(row, its, phases, stops, failed)
    PROVE  RowsFit(u, its, phases, stops, failed)
  <1>1. OwnRows(u)
    BY ChangedRows DEF RowsFit, OwnRows, TestRows
  <1>2. \A k \in TestRows(u) : RowFits(u.tests[k], its, phases, stops, failed)
    BY ChangedRows DEF RowsFit, Changed, TestRows
  <1> QED
    BY <1>1, <1>2 DEF RowsFit

\* Rows still fit when tests advance.
LEMMA RowsStillFit ==
    ASSUME NEW tb \in DBType, NEW its, NEW phases, NEW stops, NEW failed,
           NEW its2, NEW phases2, NEW stops2, NEW failed2,
           RowsFit(tb, its, phases, stops, failed),
           \A t \in Tests :
              /\ its[t] \in Nat /\ its2[t] \in Nat /\ its[t] <= its2[t]
              /\ phases[t] # "idle" => phases2[t] # "idle",
           failed \subseteq failed2,
           \A k \in TestRows(tb) :
              LET row == tb.tests[k]
              IN  row.results # None =>
                     /\ row.items >= stops2[row.of][row.iteration]
                     /\ phases2[row.of] = "running" => row.iteration < its2[row.of]
    PROVE  RowsFit(tb, its2, phases2, stops2, failed2)
  <1>1. ASSUME NEW k \in TestRows(tb)
        PROVE  RowFits(tb.tests[k], its2, phases2, stops2, failed2)
    <2>1. tb.tests[k].of \in Tests /\ tb.tests[k].iteration \in Nat
      BY TableTypes, Values DEF TestRows
    <2>2. RowFits(tb.tests[k], its, phases, stops, failed)
      BY DEF RowsFit
    <2>3. tb.tests[k].iteration <= its2[tb.tests[k].of]
      BY <2>1, <2>2 DEF RowFits
    <2> QED
      BY <2>1, <2>2, <2>3 DEF RowFits
  <1> QED
    BY <1>1 DEF RowsFit

LEMMA Replaced ==
    ASSUME NEW tb \in DBType, NEW id \in DOMAIN tb.tests, NEW row \in RowType,
           row.of = tb.tests[id].of, row.iteration = tb.tests[id].iteration,
           row.monitor = tb.tests[id].monitor,
           NEW u,
           u = [run |-> tb.run, env |-> tb.env, tests |-> [tb.tests EXCEPT ![id] = row]]
    PROVE  /\ u \in DBType /\ u.run = tb.run /\ u.env = tb.env
           /\ Changed(u, tb, id, row)
  <1> DEFINE s == [tb.tests EXCEPT ![id] = row]
  <1>1. s \in Seq(RowType)
    BY TableTypes, ExceptSeq
  <1>2. /\ DOMAIN s = DOMAIN tb.tests
        /\ s[id] = row
        /\ \A k \in DOMAIN tb.tests : k # id => s[k] = tb.tests[k]
    BY TableTypes
  <1> HIDE DEF s
  <1>3. u.tests = s /\ u.run = tb.run /\ u.env = tb.env
    BY DEF s
  <1>4. u \in DBType
    BY <1>1, <1>3, TableTypes DEF DBType, s
  <1> QED
    BY <1>2, <1>3, <1>4 DEF Changed

\* The updates of a row that the storage does.
WithResults(tb, id, i, n) ==
    [tb EXCEPT !.tests[id].results = i, !.tests[id].items = n]

WithPerc(tb, id, i) ==
    [tb EXCEPT !.tests[id].infos = TRUE, !.tests[id].perc = i, !.tests[id].parent = 1]

WithOverall(tb, id) ==
    [tb EXCEPT !.tests[id].perc = Overall, !.tests[id].parent = NULL]

LEMMA ResultsUpdated ==
    ASSUME NEW tb \in DBType, NEW id \in DOMAIN tb.tests, NEW i \in Iterations, NEW n \in Nat,
           NEW u, u = WithResults(tb, id, i, n)
    PROVE  \E row \in RowType :
              /\ Changed(u, tb, id, row)
              /\ u \in DBType /\ u.run = tb.run /\ u.env = tb.env
              /\ row.results = i
              /\ row.items = n
              /\ row.infos = tb.tests[id].infos
              /\ row.perc = tb.tests[id].perc
  <1> DEFINE row == [tb.tests[id] EXCEPT !.results = i, !.items = n]
  <1>1. tb.tests[id] \in RowType /\ 1 \in Nat /\ NULL \in Nat
    BY TableTypes DEF NULL
  <1>2. u = [run |-> tb.run, env |-> tb.env, tests |-> [tb.tests EXCEPT ![id] = row]]
    BY DEF DBType, WithResults
  <1>3. ASSUME NEW r \in RowType
        PROVE  LET s == [r EXCEPT !.results = i, !.items = n]
               IN  /\ s \in RowType
                   /\ s.of = r.of /\ s.iteration = r.iteration /\ s.monitor = r.monitor
                   /\ s.results = i
                   /\ s.items = n
                   /\ s.infos = r.infos
                   /\ s.perc = r.perc
    BY <1>1 DEF RowType
  <1>4. /\ row \in RowType
        /\ row.of = tb.tests[id].of /\ row.iteration = tb.tests[id].iteration
        /\ row.monitor = tb.tests[id].monitor
        /\ row.results = i
        /\ row.items = n
        /\ row.infos = tb.tests[id].infos
        /\ row.perc = tb.tests[id].perc
    BY <1>1, <1>3
  <1> HIDE DEF row
  <1>5. /\ u \in DBType /\ u.run = tb.run /\ u.env = tb.env
        /\ Changed(u, tb, id, row)
    BY <1>2, <1>4, Replaced
  <1> QED
    BY <1>4, <1>5

LEMMA PercUpdated ==
    ASSUME NEW tb \in DBType, NEW id \in DOMAIN tb.tests, NEW i \in Iterations,
           NEW u, u = WithPerc(tb, id, i)
    PROVE  \E row \in RowType :
              /\ Changed(u, tb, id, row)
              /\ u \in DBType /\ u.run = tb.run /\ u.env = tb.env
              /\ row.results = tb.tests[id].results
              /\ row.items = tb.tests[id].items
              /\ row.infos
              /\ row.perc = i
  <1> DEFINE row == [tb.tests[id] EXCEPT !.infos = TRUE, !.perc = i, !.parent = 1]
  <1>1. tb.tests[id] \in RowType /\ 1 \in Nat /\ NULL \in Nat
    BY TableTypes DEF NULL
  <1>2. u = [run |-> tb.run, env |-> tb.env, tests |-> [tb.tests EXCEPT ![id] = row]]
    BY DEF DBType, WithPerc
  <1>3. ASSUME NEW r \in RowType
        PROVE  LET s == [r EXCEPT !.infos = TRUE, !.perc = i, !.parent = 1]
               IN  /\ s \in RowType
                   /\ s.of = r.of /\ s.iteration = r.iteration /\ s.monitor = r.monitor
                   /\ s.results = r.results
                   /\ s.items = r.items
                   /\ s.infos = TRUE
                   /\ s.perc = i
    BY <1>1 DEF RowType
  <1>4. /\ row \in RowType
        /\ row.of = tb.tests[id].of /\ row.iteration = tb.tests[id].iteration
        /\ row.monitor = tb.tests[id].monitor
        /\ row.results = tb.tests[id].results
        /\ row.items = tb.tests[id].items
        /\ row.infos = TRUE
        /\ row.perc = i
    BY <1>1, <1>3
  <1> HIDE DEF row
  <1>5. /\ u \in DBType /\ u.run = tb.run /\ u.env = tb.env
        /\ Changed(u, tb, id, row)
    BY <1>2, <1>4, Replaced
  <1> QED
    BY <1>4, <1>5

LEMMA OverallUpdated ==
    ASSUME NEW tb \in DBType, NEW id \in DOMAIN tb.tests, 
           NEW u, u = WithOverall(tb, id)
    PROVE  \E row \in RowType :
              /\ Changed(u, tb, id, row)
              /\ u \in DBType /\ u.run = tb.run /\ u.env = tb.env
              /\ row.results = tb.tests[id].results
              /\ row.items = tb.tests[id].items
              /\ row.infos = tb.tests[id].infos
              /\ row.perc = Overall
  <1> DEFINE row == [tb.tests[id] EXCEPT !.perc = Overall, !.parent = NULL]
  <1>1. tb.tests[id] \in RowType /\ 1 \in Nat /\ NULL \in Nat
    BY TableTypes DEF NULL
  <1>2. u = [run |-> tb.run, env |-> tb.env, tests |-> [tb.tests EXCEPT ![id] = row]]
    BY DEF DBType, WithOverall
  <1>3. ASSUME NEW r \in RowType
        PROVE  LET s == [r EXCEPT !.perc = Overall, !.parent = NULL]
               IN  /\ s \in RowType
                   /\ s.of = r.of /\ s.iteration = r.iteration /\ s.monitor = r.monitor
                   /\ s.results = r.results
                   /\ s.items = r.items
                   /\ s.infos = r.infos
                   /\ s.perc = Overall
    BY <1>1 DEF RowType
  <1>4. /\ row \in RowType
        /\ row.of = tb.tests[id].of /\ row.iteration = tb.tests[id].iteration
        /\ row.monitor = tb.tests[id].monitor
        /\ row.results = tb.tests[id].results
        /\ row.items = tb.tests[id].items
        /\ row.infos = tb.tests[id].infos
        /\ row.perc = Overall
    BY <1>1, <1>3
  <1> HIDE DEF row
  <1>5. /\ u \in DBType /\ u.run = tb.run /\ u.env = tb.env
        /\ Changed(u, tb, id, row)
    BY <1>2, <1>4, Replaced
  <1> QED
    BY <1>4, <1>5

-----------------------------------------------------------------------------
(* What every step of the worker is given.                                 *)

LEMMA StateTypes ==
    ASSUME TypeOK
    PROVE  /\ tables \in DBType /\ disk \in DBType
           /\ queue \in Seq(Writes) /\ Pending \subseteq Writes
           /\ calledBack \in BOOLEAN /\ closing \in BOOLEAN
           /\ \A t \in Tests :
                 /\ iter[t] \in Iterations /\ iter[t] \in Nat
                 /\ phase[t] \in {"idle", "running", "stopped", "done"}
                 /\ tests[t] \in Nat
                 /\ \A i \in Iterations :
                       items[t][i] \in Nat /\ infos[t][i] \in Nat /\ atStop[t][i] \in Nat
           /\ job.what # "none" =>
                 /\ job.what \in {"stopped", "monitors"} /\ job.test \in Tests
                 /\ job.iteration \in Nat
           /\ NoJob.what = "none"
           /\ job.what = "none" => job = NoJob
  <1>1. Pending \subseteq Writes
    BY ElementOfSeq, LenProperties DEF TypeOK, Pending
  <1>2. NoJob.what = "none"
    BY WriteFields DEF NoJob
  <1>3. job \in Jobs
    BY DEF TypeOK
  <1>4. /\ job.what # "none" =>
              /\ job.what \in {"stopped", "monitors"} /\ job.test \in Tests
              /\ job.iteration \in Nat
        /\ job.what = "none" => job = NoJob
    BY <1>2, <1>3 DEF Jobs
  <1>5. ASSUME NEW t \in Tests
        PROVE  /\ iter[t] \in Iterations /\ iter[t] \in Nat
               /\ phase[t] \in {"idle", "running", "stopped", "done"}
               /\ tests[t] \in Nat
               /\ \A i \in Iterations :
                     items[t][i] \in Nat /\ infos[t][i] \in Nat /\ atStop[t][i] \in Nat
    <2>1. /\ iter[t] \in Iterations
          /\ phase[t] \in {"idle", "running", "stopped", "done"}
          /\ tests[t] \in Nat
      BY DEF TypeOK
    <2>2. /\ items[t] \in [Iterations -> Nat]
          /\ infos[t] \in [Iterations -> Nat]
          /\ atStop[t] \in [Iterations -> Nat]
      BY DEF TypeOK
    <2>3. iter[t] \in Nat
      BY <2>1, Values
    <2> QED
      BY <2>1, <2>2, <2>3
  <1>6. /\ tables \in DBType /\ disk \in DBType
        /\ queue \in Seq(Writes)
        /\ calledBack \in BOOLEAN /\ closing \in BOOLEAN
    BY DEF TypeOK
  <1> QED
    BY <1>1, <1>2, <1>4, <1>5, <1>6

Whats == {"begin", "started", "stopped", "finished", "end", "close"}

LEMMA Took ==
    ASSUME SInv, NEW what \in Whats, Takes(what)
    PROVE  /\ ~calledBack /\ job = NoJob /\ job.what = "none"
           /\ Head(queue).what = what /\ Head(queue) \in Writes
           /\ Head(queue) \in Pending
           /\ queue' \in Seq(Writes)
           /\ Pending = Pending' \cup {Head(queue)}
           /\ \A v \in Pending' : v \in Writes /\ Order(Head(queue), v)
           /\ calledBack' = FALSE => QueueBook'
           /\ what \notin {"end", "close"} => EndBook'
  <1>1. /\ queue # <<>> /\ queue' = Tail(queue) /\ job = NoJob /\ Head(queue).what = what
        /\ UNCHANGED mainVars
    BY DEF Takes
  <1>2. /\ Head(queue) \in Writes
        /\ queue' \in Seq(Writes)
        /\ Pending = Pending' \cup {Head(queue)}
        /\ \A v \in Pending' : v \in Writes /\ Order(Head(queue), v)
        /\ QueueOrder'
    BY <1>1, Dequeued DEF SInv, TypeOK, QueueBook
  <1>3. ~calledBack
    BY <1>1, StateTypes DEF SInv, QueueBook
  <1>4. calledBack' = FALSE => QueueBook'
    BY <1>1, <1>2 DEF SInv, QueueBook, mainVars
  <1>5. ASSUME what \notin {"end", "close"}
        PROVE  EndBook'
    <2>1. \A x \in {"end", "close"} : RunWrite(x) # Head(queue)
      BY <1>1, <1>5, WriteFields
    <2>2. runState = "ended" => RunWrite("end") \in Pending
      BY <1>2, <2>1 DEF SInv, EndBook
    <2>3. runState = "ended" => RunWrite("end") \in Pending'
      BY <1>2, <2>1, <2>2
    <2> QED
      BY <1>1, <2>3 DEF SInv, EndBook, mainVars, testVars
  <1>6. job.what = "none"
    BY <1>1, StateTypes DEF SInv
  <1> QED
    BY <1>1, <1>2, <1>3, <1>4, <1>5, <1>6

\* The worker takes the write about iteration i of t.
TakesTest(what, t, i) ==
    /\ Head(queue) = Write(what, t, i)
    /\ Head(queue).what = what /\ Head(queue).test = t /\ Head(queue).iteration = i
    /\ i \in Nat
    /\ Write(what, t, i) \in Pending
    /\ PendingFits(what, t, i)
    /\ \A v \in TestWrites : v \in Pending' =>
          v \in Pending /\ (v.test = t => Precedes(Head(queue), v))
    /\ \A x \in {"started", "stopped", "finished"}, t2 \in Tests, i2 \in Iterations :
          /\ Write(x, t2, i2) \in Pending' => Write(x, t2, i2) \in Pending
          /\ Write(x, t2, i2) \in Pending /\ ~(x = what /\ t2 = t /\ i2 = i)
                => Write(x, t2, i2) \in Pending'

LEMMA TookTest ==
    ASSUME SInv, NEW what \in {"started", "stopped", "finished"}, Takes(what)
    PROVE  \E t \in Tests, i \in Iterations : TakesTest(what, t, i)
  <1> DEFINE h == Head(queue)
  <1>1. /\ h.what = what /\ h \in Writes /\ h \in Pending /\ Pending = Pending' \cup {h}
        /\ \A v \in Pending' : v \in Writes /\ Order(h, v)
        /\ ~calledBack
    BY Took DEF Whats
  <1> HIDE DEF h
  <1>2. h \in TestWrites
    <2>1. \A x \in {"begin", "end", "close"} : h # RunWrite(x)
      BY <1>1, WriteFields
    <2> QED
      BY <1>1, <2>1 DEF Writes
  <1>3. h.test \in Tests /\ h.iteration \in Iterations /\ h = Write(what, h.test, h.iteration)
    BY <1>1, <1>2, WriteFields
  <1>4. PendingFits(what, h.test, h.iteration)
    BY <1>1, <1>2 DEF SInv, PendingBook
  <1>5. \A v \in TestWrites : v \in Pending' => v \in Pending /\ (v.test = h.test => Precedes(h, v))
    BY <1>1, <1>2 DEF Order
  <1>6. ASSUME NEW x \in {"started", "stopped", "finished"}, NEW t2 \in Tests, NEW i2 \in Iterations,
               Write(x, t2, i2) \in Pending, ~(x = what /\ t2 = h.test /\ i2 = h.iteration)
        PROVE  Write(x, t2, i2) \in Pending'
    <2>1. Write(x, t2, i2) # h
      BY <1>1, <1>6, WriteFields
    <2> QED
      BY <1>1, <1>6, <2>1
  <1>7. h.iteration \in Nat
    BY <1>3, Values
  <1> QED
    BY <1>1, <1>3, <1>4, <1>5, <1>6, <1>7 DEF h, TakesTest

LEMMA TookRun ==
    ASSUME SInv, NEW what \in {"begin", "end", "close"}, Takes(what)
    PROVE  /\ Head(queue) = RunWrite(what)
           /\ \A v \in TestWrites : v \in Pending <=> v \in Pending'
           /\ \A x \in {"started", "stopped", "finished"}, t \in Tests, i \in Iterations :
                 Write(x, t, i) \in Pending <=> Write(x, t, i) \in Pending'
           /\ \A x \in {"begin", "end", "close"} :
                 x # what => (RunWrite(x) \in Pending <=> RunWrite(x) \in Pending')
  <1>1. /\ Head(queue).what = what /\ Head(queue) \in Writes
        /\ Pending = Pending' \cup {Head(queue)}
    BY Took DEF Whats
  <1>2. Head(queue) = RunWrite(what) /\ RunWrite(what) \notin TestWrites
    BY <1>1, WriteFields
  <1>3. \A v \in TestWrites : v \in Pending <=> v \in Pending'
    BY <1>1, <1>2
  <1>4. \A x \in {"begin", "end", "close"} : x # what => RunWrite(x) # Head(queue)
    BY <1>1, WriteFields
  <1>5. \A x \in {"started", "stopped", "finished"}, t \in Tests, i \in Iterations :
            Write(x, t, i) \in TestWrites
    BY WriteFields
  <1> QED
    BY <1>1, <1>2, <1>3, <1>4, <1>5

LEMMA Mapped ==
    ASSUME SInv, ~calledBack
    PROVE  /\ \A t \in Tests :
                 /\ MapBook(t)
                 /\ tests[t] # 0 =>
                       /\ tests[t] \in TestRows(tables) /\ tests[t] \in DOMAIN tables.tests
                       /\ tables.tests[tests[t]].of = t
                 /\ tests[t] = 0 => \A k \in TestRows(tables) : tables.tests[k].of # t
           /\ \A k \in TestRows(tables) :
                 /\ k \in DOMAIN tables.tests
                 /\ tables.tests[k].of \in Tests
                 /\ tables.tests[k].iteration \in Iterations
                 /\ tables.tests[k].iteration \in Nat
                 /\ CompleteBook(k)
           /\ tables.run # "none" => tables.env
  <1>1. \A t \in Tests : MapBook(t)
    BY DEF SInv, WorkerBook
  <1>2. \A k \in TestRows(tables) :
            /\ k \in DOMAIN tables.tests
            /\ tables.tests[k].of \in Tests
            /\ tables.tests[k].iteration \in Iterations
            /\ tables.tests[k].iteration \in Nat
    BY TableTypes, StateTypes, Values DEF SInv, TestRows
  <1>3. /\ \A k \in TestRows(tables) : CompleteBook(k)
        /\ tables.run # "none" => tables.env
    BY DEF SInv, WorkerBook
  <1> QED
    BY <1>1, <1>2, <1>3 DEF MapBook

-----------------------------------------------------------------------------
(* The steps of the worker.                                                *)

LEMMA StoreStartedKeeps ==
    ASSUME SInv, StoreStarted
    PROVE  SInv'
  <1>1. Takes("started")
    BY DEF StoreStarted
  <1>2. PICK t \in Tests, i \in Iterations : TakesTest("started", t, i)
    BY <1>1, TookTest
  <1> DEFINE row == Row(t, i, FALSE)
  <1>3. /\ tables' = Insert(OpenRun(tables), row) /\ disk' = tables'
        /\ tests' = [tests EXCEPT ![t] = LastId(tables')]
        /\ UNCHANGED <<job, seen, raised, calledBack>>
        /\ UNCHANGED <<mode, runState, phase, iter, items, infos, reports, atStop, closing>>
    BY <1>2 DEF StoreStarted, Commit, Takes, TakesTest, mainVars, testVars
  <1>4. /\ ~calledBack /\ calledBack' = FALSE /\ job = NoJob /\ job.what = "none"
        /\ queue' \in Seq(Writes) /\ QueueBook' /\ EndBook'
    BY <1>1, <1>3, Took, StateTypes DEF Whats, SInv
  <1>5. TypeOK /\ tables \in DBType
    BY StateTypes DEF SInv
  <1>6. /\ row \in RowType /\ row.of = t /\ row.iteration = i
        /\ row.results = None /\ row.perc = None /\ row.monitor = FALSE
    BY <1>2, NewRow
  <1> HIDE DEF row
  <1>7. /\ tables' \in DBType
        /\ Grown(tables', tables, LastId(tables'), row)
        /\ tables'.run # "none"
        /\ tables'.env
    <2>1. /\ OpenRun(tables) \in DBType /\ OpenRun(tables).tests = tables.tests
          /\ OpenRun(tables).run # "none" /\ OpenRun(tables).env
      BY <1>4, <1>5, Mapped, OpenedRun
    <2> QED
      BY <1>3, <1>5, <1>6, <2>1, InsertedGrown
  <1>8. PICK id : Grown(tables', tables, id, row) /\ tests' = [tests EXCEPT ![t] = id]
    BY <1>3, <1>7
  <1>9. /\ TestRows(tables') = TestRows(tables) \cup {id}
        /\ \A k \in DOMAIN tables.tests : tables'.tests[k] = tables.tests[k] /\ k # id
        /\ DOMAIN tables'.tests = DOMAIN tables.tests \cup {id}
        /\ tables'.tests[id] = row /\ id # 0 /\ id \in Nat
    <2>1. TestRows(tables') = TestRows(tables) \cup {id}
      <3>1. row.monitor \in BOOLEAN /\ ~row.monitor
        BY <1>6
      <3>2. ~row.monitor => TestRows(tables') = TestRows(tables) \cup {id}
        BY <1>8, <3>1, GrownRows
      <3> QED
        BY <3>1, <3>2
    <2> QED
      BY <1>8, <2>1 DEF Grown
  <1>10. /\ tests'[t] = id
         /\ \A t2 \in Tests : t2 # t => tests'[t2] = tests[t2]
         /\ TypeOK'
    <2>1. /\ tests' \in [Tests -> Nat] /\ tests'[t] = id
          /\ \A t2 \in Tests : t2 # t => tests'[t2] = tests[t2]
      BY <1>2, <1>5, <1>8, <1>9 DEF TypeOK
    <2> QED
      BY <1>3, <1>4, <1>5, <1>7, <2>1 DEF TypeOK
  <1>11. /\ i <= iter[t] /\ phase[t] # "idle" /\ i > 0 /\ i \in Nat
         /\ \A k \in TestRows(tables) :
               tables.tests[k].of = t => tables.tests[k].iteration < i
    BY <1>2 DEF PendingFits, TakesTest
  <1>12. RowBook(tables)' /\ RowBook(disk)'
    <2>1. RowFits(row, iter, phase, atStop, raised)
      BY <1>6, <1>11 DEF RowFits
    <2>2. \A k \in TestRows(tables) :
              ~(tables.tests[k].of = row.of /\ tables.tests[k].iteration = row.iteration)
      BY <1>4, <1>6, <1>11, Mapped
    <2>3. RowsFit(tables', iter, phase, atStop, raised)
      BY <1>6, <1>7, <2>1, <2>2, GrownFit DEF SInv, RowBook
    <2> QED
      BY <1>3, <2>3 DEF RowBook
  <1>13. WorkerBook'
    <2>1. ASSUME NEW t2 \in Tests
          PROVE  MapBook(t2)'
      <3>1. CASE t2 = t
        BY <1>6, <1>9, <1>10, <3>1 DEF MapBook
      <3>2. CASE t2 # t
        BY <1>4, <1>6, <1>9, <1>10, <3>2, Mapped DEF MapBook
      <3> QED
        BY <3>1, <3>2
    <2>2. ASSUME NEW k \in TestRows(tables')
          PROVE  CompleteBook(k)'
      <3>1. CASE k = id
        BY <1>3, <1>6, <1>9, <3>1 DEF CompleteBook
      <3>2. CASE k \in TestRows(tables)
        BY <1>3, <1>4, <1>9, <3>2, Mapped DEF CompleteBook
      <3> QED
        BY <1>9, <3>1, <3>2
    <2> QED
      BY <1>3, <1>4, <1>7, <2>1, <2>2 DEF WorkerBook
  <1>14. \A t2 \in Tests, j \in Iterations : t2 # t => (Fresh(t2, j) <=> Fresh(t2, j)')
    BY <1>4, <1>9, <1>10, Mapped DEF Fresh
  <1>15. Fresh(t, i)' /\ \A j \in Iterations : j >= i => ~Fresh(t, j)
    <2>1. Fresh(t, i)'
      BY <1>6, <1>9, <1>10 DEF Fresh
    <2>2. \A j \in Iterations : j >= i => ~Fresh(t, j)
      BY <1>4, <1>11, Mapped, Values DEF Fresh
    <2> QED
      BY <2>1, <2>2
  <1>16. PendingBook'
    <2> SUFFICES ASSUME NEW w \in TestWrites, w \in Pending'
                 PROVE  PendingFits(w.what, w.test, w.iteration)'
      BY DEF PendingBook
    <2>1. /\ w.what \in {"started", "stopped", "finished"}
          /\ w.test \in Tests /\ w.iteration \in Iterations /\ w.iteration \in Nat
      BY WriteFields, Values
    <2>2. /\ PendingFits(w.what, w.test, w.iteration)
          /\ w.test = t => i <= w.iteration /\ (i = w.iteration => w.what # "started")
      BY <1>2, <1>4 DEF SInv, PendingBook, TakesTest, Precedes
    <2>3. ASSUME w.what = "started"
          PROVE  \A k \in TestRows(tables') :
                     tables'.tests[k].of = w.test => tables'.tests[k].iteration < w.iteration
      BY <1>4, <1>6, <1>9, <1>11, <2>1, <2>2, <2>3, Mapped DEF PendingFits
    <2>4. ASSUME w.what = "stopped"
          PROVE  \/ Write("started", w.test, w.iteration) \in Pending'
                 \/ Fresh(w.test, w.iteration)'
                 \/ w.iteration = 0 /\ tests'[w.test] = 0
      <3>1. \/ Write("started", w.test, w.iteration) \in Pending
            \/ Fresh(w.test, w.iteration)
            \/ w.iteration = 0 /\ tests[w.test] = 0
        BY <2>2, <2>4 DEF PendingFits
      <3>2. CASE w.test # t
        BY <1>2, <1>10, <1>14, <2>1, <3>1, <3>2 DEF TakesTest
      <3>3. CASE w.test = t /\ w.iteration = i
        BY <1>15, <3>3
      <3>4. CASE w.test = t /\ w.iteration # i
        BY <1>2, <1>11, <1>15, <2>1, <2>2, <3>1, <3>4 DEF TakesTest
      <3> QED
        BY <3>2, <3>3, <3>4
    <2> QED
      BY <1>3, <2>2, <2>3, <2>4 DEF PendingFits
  <1>17. MainBook'
    <2> SUFFICES ASSUME Accepts', NEW t2 \in Tests, phase'[t2] = "running",
                        NEW n \in Iterations, n = iter[t2]
                 PROVE  Write("started", t2, n) \in Pending' \/ Fresh(t2, n)'
      BY <1>3, StateTypes DEF SInv, MainBook, Fresh
    <2>1. n \in Nat
      BY Values
    <2>2. Write("started", t2, n) \in Pending \/ Fresh(t2, n)
      BY <1>3, <1>4 DEF SInv, MainBook, Accepts
    <2>3. CASE t2 # t
      BY <1>2, <1>14, <2>1, <2>2, <2>3 DEF TakesTest
    <2>4. CASE t2 = t
      BY <1>2, <1>11, <1>15, <2>1, <2>2, <2>4 DEF TakesTest
    <2> QED
      BY <2>3, <2>4
  <1>18. WholeBook'
    <2> SUFFICES ASSUME Whole', NEW t2 \in Tests
                 PROVE  /\ \A j \in Iterations : j > 0 /\ j <= iter[t2] => IterationBook(t2, j)'
                        /\ MonitorBook(t2)'
      BY <1>3 DEF WholeBook
    <2>1. /\ \A j \in Iterations : j > 0 /\ j <= iter[t2] => IterationBook(t2, j)
          /\ MonitorBook(t2)
      BY <1>3 DEF SInv, WholeBook, Whole, Accepts
    <2>2. \A j \in Iterations : Covered(t2, j) <=> Covered(t2, j)'
      BY <1>2, <1>3 DEF TakesTest, Covered
    <2>3. ASSUME NEW j \in Iterations, IterationBook(t2, j)
          PROVE  IterationBook(t2, j)'
      <3>1. CASE Write("started", t2, j) \in Pending /\ Covered(t2, j)
        <4>1. CASE t2 = t /\ j = i
          BY <1>6, <1>9, <2>2, <3>1, <4>1 DEF IterationBook, Recorded
        <4>2. CASE ~(t2 = t /\ j = i)
          BY <1>2, <2>2, <3>1, <4>2 DEF IterationBook, TakesTest
        <4> QED
          BY <4>1, <4>2
      <3>2. ASSUME NEW k \in DOMAIN tables.tests, Recorded(k, t2, j)
            PROVE  IterationBook(t2, j)'
        <4>1. Recorded(k, t2, j)'
          BY <1>3, <1>4, <1>9, <2>2, <3>2 DEF Recorded, StoredInFull
        <4> QED
          BY <1>9, <4>1 DEF IterationBook
      <3> QED
        BY <2>3, <3>1, <3>2 DEF IterationBook
    <2>4. MonitorBook(t2)'
      <3>1. MonitorRows(t2)' = MonitorRows(t2)
        BY <1>6, <1>9 DEF MonitorRows
      <3>2. Finishing(t2) <=> Finishing(t2)'
        BY <1>2, <1>3, StateTypes DEF Finishing, TakesTest, SInv
      <3>3. NothingPending(t2) => NothingPending(t2)'
        BY <1>2 DEF NothingPending, TakesTest
      <3>4. t2 = t => ~NothingPending(t2)
        BY <1>2, WriteFields DEF NothingPending, TakesTest
      <3> QED
        BY <1>3, <1>4, <1>10, <2>1, <3>1, <3>2, <3>3, <3>4 DEF MonitorBook, MonitorsLeft
    <2> QED
      BY <2>1, <2>3, <2>4
  <1>19. ItemsBook' /\ JobBook'
    BY <1>3, <1>4 DEF SInv, ItemsBook, JobBook
  <1> QED
    BY <1>4, <1>10, <1>12, <1>13, <1>16, <1>17, <1>18, <1>19 DEF SInv

\* A stop has begun: the row id of iteration i has its checklist.
StopBegun(id, row, t, i) ==
    /\ row \in RowType /\ row.of = t /\ row.iteration = i /\ row.monitor = FALSE
    /\ row.results = i /\ row.perc = None /\ row.items = items[t][i]
    /\ tables' \in DBType /\ disk' \in DBType
    /\ tests' = [tests EXCEPT ![t] = id]
    /\ id \in Nat /\ id # 0
    /\ TestRows(tables') = TestRows(tables) \cup {id}
    /\ DOMAIN tables'.tests = DOMAIN tables.tests \cup {id}
    /\ tables'.tests[id] = row
    /\ \A k \in DOMAIN tables.tests : k # id => tables'.tests[k] = tables.tests[k]
    /\ tests[t] = 0 => i = 0 /\ id \notin DOMAIN tables.tests
    /\ tests[t] # 0 => id = tests[t] /\ Fresh(t, i)
    /\ tables'.run # "none" => tables'.env
    /\ RowsFit(tables', iter, phase, atStop, raised)
    /\ RowsFit(disk', iter, phase, atStop, raised)

LEMMA BegunStop ==
    ASSUME SInv, BeginStop
    PROVE  \E t \in Tests, i \in Iterations :
               TakesTest("stopped", t, i) /\ \E id, row : StopBegun(id, row, t, i)
  <1>1. Takes("stopped")
    BY DEF BeginStop
  <1>2. PICK t \in Tests, i \in Iterations : TakesTest("stopped", t, i)
    BY <1>1, TookTest
  <1>3. /\ ~calledBack /\ job.what = "none"
        /\ TypeOK /\ tables \in DBType /\ disk \in DBType /\ items[t][i] \in Nat
    BY <1>1, Took, StateTypes DEF Whats, SInv
  <1>4. /\ Write("started", t, i) \notin Pending
        /\ Fresh(t, i) \/ (i = 0 /\ tests[t] = 0)
    <2>1. Write("started", t, i) \notin Pending'
      BY <1>2, WriteFields DEF TakesTest, Precedes
    <2>2. Write("started", t, i) \notin Pending
      BY <1>2, <2>1 DEF TakesTest
    <2> QED
      BY <1>2, <2>2 DEF TakesTest, PendingFits
  <1>5. ASSUME NEW row, row.of = t, row.iteration = i, row.results = i, row.perc = None,
               row.items = items[t][i]
        PROVE  RowFits(row, iter, phase, atStop, raised)
    <2>1. items[t][i] >= atStop[t][i]
      BY DEF SInv, ItemsBook
    <2>2. i <= iter[t] /\ phase[t] # "idle" /\ (phase[t] = "running" => i < iter[t])
      BY <1>2 DEF TakesTest, PendingFits
    <2> QED
      BY <1>5, <2>1, <2>2 DEF RowFits
  <1>6. RowsFit(tables, iter, phase, atStop, raised) /\ RowsFit(disk, iter, phase, atStop, raised)
    BY DEF SInv, RowBook
  <1>7. CASE tests[t] # 0
    <2>1. PICK id \in Nat :
             /\ id = tests[t]
             /\ tables' = WithResults(tables, id, i, items[t][i])
             /\ disk' = disk
             /\ tests' = [tests EXCEPT ![t] = id]
      BY <1>2, <1>3, <1>7, StateTypes DEF BeginStop, TakesTest, WithResults
    <2>2. /\ id \in TestRows(tables) /\ id \in DOMAIN tables.tests
          /\ tables.tests[id].of = t
          /\ Fresh(t, i)
      BY <1>2, <1>3, <1>4, <1>7, <2>1, Mapped
    <2>3. /\ tables.tests[id].iteration = i /\ tables.tests[id].perc = None
          /\ tables.tests[id].monitor = FALSE
      BY <1>3, <2>1, <2>2, TableTypes DEF Fresh, TestRows
    <2>4. PICK row \in RowType :
             /\ Changed(tables', tables, id, row)
             /\ tables' \in DBType /\ tables'.run = tables.run /\ tables'.env = tables.env
             /\ row.results = i
             /\ row.items = items[t][i]
             /\ row.perc = tables.tests[id].perc
      BY <1>3, <2>1, <2>2, ResultsUpdated
    <2>5. row.of = t /\ row.iteration = i /\ row.perc = None /\ row.monitor = FALSE
      BY <2>2, <2>3, <2>4 DEF Changed
    <2>6. RowsFit(tables', iter, phase, atStop, raised)
      <3>1. RowFits(row, iter, phase, atStop, raised)
        BY <1>5, <2>4, <2>5
      <3> QED
        BY <1>6, <2>4, <3>1, ChangedFit
    <2>7. TestRows(tables') = TestRows(tables)
      BY <2>4, ChangedRows
    <2>8. tables'.run # "none" => tables'.env
      BY <1>3, <2>4, Mapped
    <2>9. StopBegun(id, row, t, i)
      BY <1>3, <1>6, <1>7, <2>1, <2>2, <2>4, <2>5, <2>6, <2>7, <2>8 DEF StopBegun, Changed
    <2> QED
      BY <1>2, <2>9
  <1>8. CASE tests[t] = 0
    <2> DEFINE first == Row(t, i, FALSE)
    <2>1. PICK tb, id :
             /\ tb = Insert(OpenRun(tables), first) /\ id = LastId(tb)
             /\ tables' = WithResults(tb, id, i, items[t][i])
             /\ disk' = OpenRun(tables)
             /\ tests' = [tests EXCEPT ![t] = id]
      BY <1>2, <1>8 DEF BeginStop, TakesTest, WithResults
    <2>2. /\ OpenRun(tables) \in DBType /\ OpenRun(tables).tests = tables.tests
          /\ OpenRun(tables).env
      BY <1>3, Mapped, OpenedRun
    <2>3. /\ first \in RowType /\ first.of = t /\ first.iteration = i /\ first.perc = None
          /\ first.monitor = FALSE
      BY NewRow
    <2> HIDE DEF first
    <2>4. tb \in DBType /\ Grown(tb, tables, id, first) /\ tb.env
      BY <1>3, <2>1, <2>2, <2>3, InsertedGrown
    <2>5. id \in DOMAIN tb.tests /\ tb.tests[id] = first
      BY <2>4 DEF Grown
    <2>6. PICK row \in RowType :
             /\ Changed(tables', tb, id, row)
             /\ tables' \in DBType /\ tables'.env = tb.env
             /\ row.results = i
             /\ row.items = items[t][i]
             /\ row.perc = tb.tests[id].perc
      <3>1. tables' = WithResults(tb, id, i, items[t][i]) /\ items[t][i] \in Nat
        BY <1>3, <2>1
      <3>2. tb \in DBType /\ id \in DOMAIN tb.tests
        BY <2>4, <2>5
      <3> QED
        BY <3>1, <3>2, ResultsUpdated
    <2>7. row.of = t /\ row.iteration = i /\ row.perc = None /\ row.monitor = FALSE
      BY <2>3, <2>5, <2>6 DEF Changed
    <2>8. Grown(tables', tables, id, row)
      BY <2>4, <2>6 DEF Grown, Changed
    <2>9. /\ \A k \in TestRows(tables) : tables.tests[k].of # t
          /\ i = 0
      BY <1>3, <1>4, <1>8, Mapped DEF Fresh
    <2>10. RowsFit(tables', iter, phase, atStop, raised)
      <3>1. RowFits(row, iter, phase, atStop, raised)
        BY <1>5, <2>6, <2>7
      <3>2. \A k \in TestRows(tables) :
                ~(tables.tests[k].of = row.of /\ tables.tests[k].iteration = row.iteration)
        BY <2>7, <2>9
      <3> QED
        BY <1>6, <2>7, <2>8, <3>1, <3>2, GrownFit
    <2>11. RowsFit(disk', iter, phase, atStop, raised)
      BY <1>6, <2>1, <2>2, SameRows
    <2>12. TestRows(tables') = TestRows(tables) \cup {id}
      <3>1. row.monitor \in BOOLEAN /\ ~row.monitor
        BY <2>7
      <3>2. ~row.monitor => TestRows(tables') = TestRows(tables) \cup {id}
        BY <2>8, <3>1, GrownRows
      <3> QED
        BY <3>1, <3>2
    <2>13. StopBegun(id, row, t, i)
      BY <1>8, <2>1, <2>2, <2>4, <2>6, <2>7, <2>8, <2>9, <2>10, <2>11, <2>12 DEF StopBegun, Grown
    <2> QED
      BY <1>2, <2>13
  <1> QED
    BY <1>7, <1>8

LEMMA BeginStopKeeps ==
    ASSUME SInv, BeginStop
    PROVE  SInv'
  <1>1. PICK t \in Tests, i \in Iterations :
            TakesTest("stopped", t, i) /\ \E id, row : StopBegun(id, row, t, i)
    BY BegunStop
  <1>2. PICK id, row : StopBegun(id, row, t, i)
    BY <1>1
  <1>3. /\ Takes("stopped")
        /\ job' = Head(queue) /\ job'.what = "stopped" /\ job'.test = t /\ job'.iteration = i
        /\ seen' = infos[t][i]
        /\ UNCHANGED <<raised, calledBack>>
        /\ UNCHANGED <<mode, runState, phase, iter, items, infos, reports, atStop, closing>>
    BY <1>1 DEF BeginStop, Takes, TakesTest, mainVars, testVars
  <1>4. /\ ~calledBack /\ calledBack' = FALSE /\ job = NoJob /\ job.what = "none"
        /\ queue' \in Seq(Writes) /\ QueueBook' /\ EndBook'
    BY <1>3, Took, StateTypes DEF Whats, SInv
  <1>5. TypeOK /\ tables \in DBType /\ i \in Nat /\ infos[t][i] \in Nat
    BY StateTypes, Values DEF SInv
  <1>6. /\ tests'[t] = id
        /\ \A t2 \in Tests : t2 # t => tests'[t2] = tests[t2]
        /\ tests' \in [Tests -> Nat]
    BY <1>2, <1>5 DEF TypeOK, StopBegun
  <1>7. TypeOK'
    <2>1. job' \in Jobs
      BY <1>1, <1>3, <1>5 DEF TakesTest, Write, Jobs
    <2> QED
      BY <1>2, <1>3, <1>4, <1>5, <1>6, <2>1 DEF TypeOK, StopBegun
  <1>8. /\ TestRows(tables') = TestRows(tables) \cup {id}
        /\ DOMAIN tables'.tests = DOMAIN tables.tests \cup {id}
        /\ tables'.tests[id] = row /\ id # 0
        /\ row.of = t /\ row.iteration = i /\ row.results = i /\ row.monitor = FALSE
        /\ \A k \in DOMAIN tables.tests : k # id => tables'.tests[k] = tables.tests[k]
    BY <1>2 DEF StopBegun
  <1>9. /\ id \in DOMAIN tables.tests =>
              /\ id \in TestRows(tables)
              /\ tables.tests[id].of = t /\ tables.tests[id].iteration = i
              /\ tables.tests[id].results = None
        /\ tests[t] # 0 => tests[t] = id /\ id \in DOMAIN tables.tests
        /\ tests[t] = 0 => i = 0
    BY <1>2, <1>4, Mapped DEF StopBegun, Fresh
  <1>10. RowBook(tables)' /\ RowBook(disk)'
    BY <1>2, <1>3 DEF StopBegun, RowBook
  <1>11. WorkerBook'
    <2>1. ASSUME NEW t2 \in Tests
          PROVE  MapBook(t2)'
      <3>1. CASE t2 = t
        BY <1>6, <1>8, <3>1 DEF MapBook
      <3>2. CASE t2 # t
        BY <1>4, <1>6, <1>8, <1>9, <3>2, Mapped DEF MapBook
      <3> QED
        BY <3>1, <3>2
    <2>2. ASSUME NEW k \in TestRows(tables')
          PROVE  CompleteBook(k)'
      <3>1. CASE k = id
        BY <1>3, <1>6, <3>1 DEF CompleteBook
      <3>2. CASE k # id
        BY <1>3, <1>4, <1>8, <3>2, Mapped DEF CompleteBook
      <3> QED
        BY <3>1, <3>2
    <2>3. /\ tests'[job'.test] # 0
          /\ tables'.tests[tests'[job'.test]].iteration = job'.iteration
          /\ tables'.tests[tests'[job'.test]].results = job'.iteration
      BY <1>3, <1>6, <1>8
    <2>4. tables'.run # "none" => tables'.env
      BY <1>2 DEF StopBegun
    <2> QED
      BY <2>1, <2>2, <2>3, <2>4 DEF WorkerBook
  <1>12. \A t2 \in Tests, j \in Iterations : t2 # t => (Fresh(t2, j) <=> Fresh(t2, j)')
    BY <1>4, <1>6, <1>8, <1>9, Mapped DEF Fresh
  <1>13. \A j \in Iterations : j # i => ~Fresh(t, j)
    BY <1>2 DEF StopBegun, Fresh
  <1>14. PendingBook'
    <2> SUFFICES ASSUME NEW w \in TestWrites, w \in Pending'
                 PROVE  PendingFits(w.what, w.test, w.iteration)'
      BY DEF PendingBook
    <2>1. /\ w.what \in {"started", "stopped", "finished"}
          /\ w.test \in Tests /\ w.iteration \in Iterations /\ w.iteration \in Nat
      BY WriteFields, Values
    <2>2. /\ PendingFits(w.what, w.test, w.iteration)
          /\ w.test = t => i <= w.iteration /\ (i = w.iteration => w.what = "finished")
      BY <1>1, <1>4 DEF SInv, PendingBook, TakesTest, Precedes
    <2>3. ASSUME w.what = "started"
          PROVE  \A k \in TestRows(tables') :
                     tables'.tests[k].of = w.test => tables'.tests[k].iteration < w.iteration
      <3>1. \A k \in TestRows(tables) :
                tables.tests[k].of = w.test => tables.tests[k].iteration < w.iteration
        BY <2>2, <2>3 DEF PendingFits
      <3>2. w.test = t => i < w.iteration
        BY <1>5, <2>1, <2>2, <2>3
      <3> QED
        BY <1>4, <1>8, <3>1, <3>2, Mapped
    <2>4. ASSUME w.what = "stopped"
          PROVE  \/ Write("started", w.test, w.iteration) \in Pending'
                 \/ Fresh(w.test, w.iteration)'
                 \/ w.iteration = 0 /\ tests'[w.test] = 0
      <3>1. \/ Write("started", w.test, w.iteration) \in Pending
            \/ Fresh(w.test, w.iteration)
            \/ w.iteration = 0 /\ tests[w.test] = 0
        BY <2>2, <2>4 DEF PendingFits
      <3>2. w.test = t => i < w.iteration
        BY <1>5, <2>1, <2>2, <2>4
      <3>3. Write("started", w.test, w.iteration) \in Pending =>
                Write("started", w.test, w.iteration) \in Pending'
        BY <1>1, <2>1 DEF TakesTest
      <3>4. CASE w.test # t
        BY <1>6, <1>12, <2>1, <3>1, <3>3, <3>4
      <3>5. CASE w.test = t
        BY <1>5, <1>13, <2>1, <3>1, <3>2, <3>3, <3>5
      <3> QED
        BY <3>4, <3>5
    <2> QED
      BY <1>3, <2>2, <2>3, <2>4 DEF PendingFits
  <1>15. MainBook'
    <2> SUFFICES ASSUME Accepts', NEW t2 \in Tests, phase'[t2] = "running",
                        NEW n \in Iterations, n = iter[t2]
                 PROVE  Write("started", t2, n) \in Pending' \/ Fresh(t2, n)'
      BY <1>3, StateTypes DEF SInv, MainBook, Fresh
    <2>1. Write("started", t2, n) \in Pending \/ Fresh(t2, n)
      BY <1>3, <1>4 DEF SInv, MainBook, Accepts
    <2>2. t2 = t => n # i
      BY <1>1, <1>3, <1>5 DEF TakesTest, PendingFits
    <2>3. Write("started", t2, n) \in Pending => Write("started", t2, n) \in Pending'
      BY <1>1 DEF TakesTest
    <2> QED
      BY <1>12, <1>13, <2>1, <2>2, <2>3
  <1>16. WholeBook'
    <2> SUFFICES ASSUME Whole', NEW t2 \in Tests
                 PROVE  /\ \A j \in Iterations : j > 0 /\ j <= iter[t2] => IterationBook(t2, j)'
                        /\ MonitorBook(t2)'
      BY <1>3 DEF WholeBook
    <2>1. /\ \A j \in Iterations : j > 0 /\ j <= iter[t2] => IterationBook(t2, j)
          /\ MonitorBook(t2)
      BY <1>3 DEF SInv, WholeBook, Whole, Accepts
    <2>2. \A j \in Iterations : ~(t2 = t /\ j = i) => (Covered(t2, j) <=> Covered(t2, j)')
      BY <1>1, <1>3 DEF TakesTest, Covered
    <2>3. ASSUME NEW j \in Iterations, j > 0, IterationBook(t2, j)
          PROVE  IterationBook(t2, j)'
      <3>1. CASE t2 = t /\ j = i
        <4>1. id \in DOMAIN tables.tests
          BY <1>9, <2>3, <3>1
        <4>2. Recorded(id, t2, j)'
          BY <1>3, <1>6, <1>8, <3>1 DEF Recorded
        <4> QED
          BY <1>8, <4>2 DEF IterationBook
      <3>2. CASE ~(t2 = t /\ j = i)
        <4>1. CASE Write("started", t2, j) \in Pending /\ Covered(t2, j)
          BY <1>1, <2>2, <3>2, <4>1 DEF IterationBook, TakesTest
        <4>2. ASSUME NEW k \in DOMAIN tables.tests, Recorded(k, t2, j)
              PROVE  IterationBook(t2, j)'
          <5>1. k # id
            BY <1>9, <3>2, <4>2 DEF Recorded
          <5>2. Recorded(k, t2, j)'
            BY <1>3, <1>4, <1>8, <2>2, <3>2, <4>2, <5>1 DEF Recorded, StoredInFull
          <5> QED
            BY <1>8, <5>2 DEF IterationBook
        <4> QED
          BY <2>3, <4>1, <4>2 DEF IterationBook
      <3> QED
        BY <3>1, <3>2
    <2>4. MonitorBook(t2)'
      <3>1. MonitorRows(t2)' = MonitorRows(t2)
        BY <1>8, <1>9 DEF MonitorRows, TestRows
      <3>2. Finishing(t2) <=> Finishing(t2)'
        BY <1>1, <1>3, StateTypes DEF Finishing, TakesTest, SInv
      <3>3. NothingPending(t2) => NothingPending(t2)'
        BY <1>1 DEF NothingPending, TakesTest
      <3>4. t2 = t => ~NothingPending(t2)
        BY <1>1, WriteFields DEF NothingPending, TakesTest
      <3> QED
        BY <1>3, <1>4, <1>6, <2>1, <3>1, <3>2, <3>3, <3>4 DEF MonitorBook, MonitorsLeft
    <2> QED
      BY <2>1, <2>3, <2>4
  <1>17. ItemsBook' /\ JobBook'
    BY <1>3 DEF SInv, ItemsBook, JobBook
  <1> QED
    BY <1>4, <1>7, <1>10, <1>11, <1>14, <1>15, <1>16, <1>17 DEF SInv

\* A write of the run leaves the rows alone.
LEMMA RunStepKeeps ==
    ASSUME SInv, NEW what \in {"begin", "end"}, Takes(what),
           tables' \in DBType, tables'.tests = tables.tests, tables'.run # "none" => tables'.env,
           disk' \in DBType, disk'.tests = tables.tests,
           UNCHANGED <<job, seen, tests, raised, calledBack>>,
           EndBook'
    PROVE  SInv'
  <1>1. /\ UNCHANGED <<mode, runState, phase, iter, items, infos, reports, atStop, closing>>
        /\ UNCHANGED <<job, seen, tests, raised, calledBack>>
    BY DEF Takes, mainVars, testVars
  <1>2. /\ ~calledBack /\ calledBack' = FALSE /\ job = NoJob /\ job.what = "none"
        /\ queue' \in Seq(Writes) /\ QueueBook'
    BY <1>1, Took, StateTypes DEF Whats, SInv
  <1>3. /\ \A v \in TestWrites : v \in Pending <=> v \in Pending'
        /\ \A x \in {"started", "stopped", "finished"}, t \in Tests, i \in Iterations :
              Write(x, t, i) \in Pending <=> Write(x, t, i) \in Pending'
    BY TookRun
  <1>4. TypeOK'
    BY <1>1, <1>2 DEF SInv, TypeOK
  <1>5. RowBook(tables)' /\ RowBook(disk)'
    <2>1. RowsFit(tables, iter, phase, atStop, raised)
      BY DEF SInv, RowBook
    <2>2. RowsFit(tables', iter, phase, atStop, raised) /\ RowsFit(disk', iter, phase, atStop, raised)
      BY <2>1, SameRows
    <2> QED
      BY <1>1, <2>2 DEF RowBook
  <1>6. /\ TestRows(tables') = TestRows(tables) /\ DOMAIN tables'.tests = DOMAIN tables.tests
        /\ \A k : tables'.tests[k] = tables.tests[k]
    BY DEF TestRows
  <1>7. WorkerBook'
    <2>1. \A t \in Tests : MapBook(t)'
      BY <1>1, <1>2, <1>6 DEF SInv, WorkerBook, MapBook
    <2>2. \A k \in TestRows(tables') : CompleteBook(k)'
      BY <1>1, <1>2, <1>6 DEF SInv, WorkerBook, CompleteBook
    <2> QED
      BY <1>1, <1>2, <2>1, <2>2 DEF WorkerBook
  <1>8. \A t \in Tests, j \in Iterations : Fresh(t, j) <=> Fresh(t, j)'
    BY <1>1, <1>6 DEF Fresh
  <1>9. PendingBook'
    <2> SUFFICES ASSUME NEW w \in TestWrites, w \in Pending'
                 PROVE  PendingFits(w.what, w.test, w.iteration)'
      BY DEF PendingBook
    <2>1. w.test \in Tests /\ w.iteration \in Iterations
      BY WriteFields
    <2>2. PendingFits(w.what, w.test, w.iteration)
      BY <1>2, <1>3 DEF SInv, PendingBook
    <2> QED
      BY <1>1, <1>3, <1>6, <1>8, <2>1, <2>2 DEF PendingFits
  <1>10. MainBook'
    <2> SUFFICES ASSUME Accepts', NEW t \in Tests, phase'[t] = "running",
                        NEW n \in Iterations, n = iter[t]
                 PROVE  Write("started", t, n) \in Pending' \/ Fresh(t, n)'
      BY <1>1, StateTypes DEF SInv, MainBook, Fresh
    <2>1. Write("started", t, n) \in Pending \/ Fresh(t, n)
      BY <1>1, <1>2 DEF SInv, MainBook, Accepts
    <2> QED
      BY <1>3, <1>8, <2>1
  <1>11. WholeBook'
    <2> SUFFICES ASSUME Whole', NEW t \in Tests
                 PROVE  /\ \A j \in Iterations : j > 0 /\ j <= iter[t] => IterationBook(t, j)'
                        /\ MonitorBook(t)'
      BY <1>1 DEF WholeBook
    <2>1. /\ \A j \in Iterations : j > 0 /\ j <= iter[t] => IterationBook(t, j)
          /\ MonitorBook(t)
      BY <1>1 DEF SInv, WholeBook, Whole, Accepts
    <2>2. \A j \in Iterations : Covered(t, j) <=> Covered(t, j)'
      BY <1>1, <1>3 DEF Covered
    <2>3. ASSUME NEW j \in Iterations, IterationBook(t, j)
          PROVE  IterationBook(t, j)'
      <3>1. ASSUME NEW k \in DOMAIN tables.tests, Recorded(k, t, j)
            PROVE  Recorded(k, t, j)'
        BY <1>1, <1>6, <2>2, <3>1 DEF Recorded, StoredInFull
      <3> QED
        BY <1>3, <1>6, <2>2, <2>3, <3>1 DEF IterationBook
    <2>4. MonitorBook(t)'
      <3>1. MonitorRows(t)' = MonitorRows(t)
        BY <1>6 DEF MonitorRows
      <3>2. Finishing(t) <=> Finishing(t)'
        BY <1>1, <1>3, StateTypes DEF Finishing, SInv
      <3>3. NothingPending(t) => NothingPending(t)'
        BY <1>3 DEF NothingPending
      <3> QED
        BY <1>1, <2>1, <3>1, <3>2, <3>3 DEF MonitorBook, MonitorsLeft
    <2> QED
      BY <2>1, <2>3, <2>4
  <1>12. ItemsBook' /\ JobBook'
    BY <1>1, <1>2 DEF SInv, ItemsBook, JobBook
  <1> QED
    BY <1>2, <1>4, <1>5, <1>7, <1>9, <1>10, <1>11, <1>12 DEF SInv

LEMMA StoreBeginKeeps ==
    ASSUME SInv, StoreBegin
    PROVE  SInv'
  <1>1. /\ Takes("begin") /\ tables' = OpenRun(tables)
        /\ disk' = [OpenRun(tables) EXCEPT !.env = tables.env]
        /\ UNCHANGED <<job, seen, tests, raised, calledBack>>
    BY DEF StoreBegin
  <1>2. ~calledBack /\ EndBook'
    BY <1>1, Took DEF Whats
  <1>3. tables \in DBType /\ (tables.run # "none" => tables.env)
    BY <1>2, StateTypes, Mapped DEF SInv
  <1>4. /\ tables' \in DBType /\ tables'.tests = tables.tests /\ tables'.env
        /\ disk' \in DBType /\ disk'.tests = tables.tests
    BY <1>1, <1>3, OpenedRun
  <1> QED
    BY <1>1, <1>2, <1>4, RunStepKeeps

LEMMA StoreEndKeeps ==
    ASSUME SInv, StoreEnd
    PROVE  SInv'
  <1>1. /\ Takes("end") /\ tables' = [OpenRun(tables) EXCEPT !.run = "stopped"]
        /\ disk' = tables'
        /\ UNCHANGED <<job, seen, tests, raised, calledBack>>
        /\ UNCHANGED <<runState, phase, iter>>
    BY DEF StoreEnd, Commit, Takes, mainVars, testVars
  <1>2. /\ ~calledBack /\ job = NoJob
        /\ \A v \in Pending' : v \in Writes /\ Order(Head(queue), v)
        /\ Head(queue).what = "end"
    BY <1>1, Took DEF Whats
  <1>3. tables \in DBType /\ (tables.run # "none" => tables.env)
    BY <1>2, StateTypes, Mapped DEF SInv
  <1>4. /\ tables' \in DBType /\ tables'.tests = tables.tests /\ tables'.env
        /\ tables'.run = "stopped"
    BY <1>1, <1>3, OpenedRun
  <1>5. Pending' \subseteq {RunWrite("close")}
    <2>1. \A v \in Pending' : v.what = "close"
      BY <1>2 DEF Order
    <2> QED
      BY <1>2, <2>1, WriteFields
  <1>6. EndBook'
    BY <1>1, <1>2, <1>4, <1>5 DEF SInv, EndBook
  <1> QED
    BY <1>1, <1>4, <1>6, RunStepKeeps

LEMMA CloseDBKeeps ==
    ASSUME SInv, CloseDB
    PROVE  SInv'
  <1>1. /\ Takes("close") /\ tables' = disk /\ calledBack' = TRUE
        /\ UNCHANGED <<disk, job, seen, tests, raised>>
        /\ UNCHANGED <<mode, runState, phase, iter, items, infos, reports, atStop, closing>>
    BY DEF CloseDB, Takes, mainVars, testVars
  <1>2. /\ ~calledBack /\ job = NoJob /\ job.what = "none"
        /\ queue' \in Seq(Writes)
        /\ Pending = Pending' \cup {Head(queue)}
        /\ \A v \in Pending' : v \in Writes /\ Order(Head(queue), v)
        /\ Head(queue).what = "close"
        /\ Head(queue) = RunWrite("close")
    BY <1>1, Took, TookRun DEF Whats
  <1>3. Pending' = {} /\ Pending = {RunWrite("close")}
    BY <1>2 DEF Order
  <1>4. queue' = <<>>
    <2>1. Len(queue') \in Nat /\ DOMAIN queue' = 1..Len(queue')
      BY <1>2, LenProperties
    <2>2. DOMAIN queue' = {}
      BY <1>3 DEF Pending
    <2>3. Len(queue') = 0
      BY <2>1, <2>2
    <2> QED
      BY <1>2, <2>3, EmptySeq
  <1>5. TypeOK'
    BY <1>1, <1>2 DEF SInv, TypeOK
  <1>6. QueueBook'
    <2>1. QueueOrder'
      BY <1>4 DEF QueueOrder
    <2>2. mode = "async" /\ closing
      BY <1>3 DEF SInv, QueueBook
    <2> QED
      BY <1>1, <1>2, <1>3, <1>4, <2>1, <2>2 DEF QueueBook
  <1>7. RowBook(tables)' /\ RowBook(disk)'
    BY <1>1 DEF SInv, RowBook
  <1>8. /\ \A t \in Tests, i \in Iterations, x \in {"started", "stopped", "finished"} :
              Write(x, t, i) \notin Pending
        /\ RunWrite("end") \notin Pending
    BY <1>3, WriteFields
  <1>9. EndBook'
    BY <1>1, <1>2, <1>3, <1>8 DEF SInv, EndBook
  <1>10. WholeBook'
    <2> SUFFICES ASSUME Whole', NEW t \in Tests
                 PROVE  /\ \A j \in Iterations : j > 0 /\ j <= iter[t] => IterationBook(t, j)'
                        /\ MonitorBook(t)'
      BY <1>1 DEF WholeBook
    <2>1. mode = "async" /\ closing
      BY <1>3 DEF SInv, QueueBook
    <2>2. runState = "ended"
      BY <1>1, <2>1 DEF Whole, Accepts
    <2>3. tables' = tables
      BY <1>1, <1>8, <2>2 DEF SInv, EndBook
    <2>4. /\ \A j \in Iterations : j > 0 /\ j <= iter[t] => IterationBook(t, j)
          /\ MonitorBook(t)
      BY <2>2 DEF SInv, WholeBook, Whole
    <2>5. \A j \in Iterations : Covered(t, j) => Covered(t, j)'
      BY <1>1, <1>8 DEF Covered
    <2>6. ASSUME NEW j \in Iterations, IterationBook(t, j)
          PROVE  IterationBook(t, j)'
      <3>1. ASSUME NEW k \in DOMAIN tables.tests, Recorded(k, t, j)
            PROVE  Recorded(k, t, j)'
        BY <1>1, <2>3, <2>5, <3>1 DEF Recorded, StoredInFull
      <3> QED
        BY <1>8, <2>3, <2>6, <3>1 DEF IterationBook
    <2>7. MonitorBook(t)'
      <3>1. MonitorRows(t)' = MonitorRows(t)
        BY <2>3 DEF MonitorRows
      <3>2. ~Finishing(t) /\ ~Finishing(t)'
        BY <1>1, <1>3, <1>8, StateTypes DEF Finishing, SInv
      <3>3. NothingPending(t)'
        BY <1>3 DEF NothingPending
      <3> QED
        BY <1>1, <2>4, <3>1, <3>2, <3>3 DEF MonitorBook, MonitorsLeft
    <2> QED
      BY <2>4, <2>6, <2>7
  <1>11. ItemsBook' /\ JobBook'
    BY <1>1, <1>2 DEF SInv, ItemsBook, JobBook
  <1> QED
    BY <1>1, <1>5, <1>6, <1>7, <1>9, <1>10, <1>11 DEF SInv

\* What an unfinished stop is about.
LEMMA Stopping ==
    ASSUME SInv, job.what = "stopped"
    PROVE  \E t \in Tests, i \in Iterations, id \in TestRows(tables) :
              /\ job.test = t /\ job.iteration = i /\ tests[t] = id /\ id \in DOMAIN tables.tests
              /\ tables.tests[id].of = t
              /\ tables.tests[id].iteration = i
              /\ tables.tests[id].results = i
              /\ tables.tests[id].monitor = FALSE
              /\ ~calledBack
              /\ \A j : ~Fresh(t, j)
              /\ runState = "ended" => RunWrite("end") \in Pending
  <1>1. job.test \in Tests /\ NoJob.what = "none" /\ tables \in DBType /\ job # NoJob
    BY StateTypes DEF SInv
  <1>2. ~calledBack
    BY <1>1 DEF SInv, QueueBook
  <1>3. /\ tests[job.test] # 0
        /\ tables.tests[tests[job.test]].iteration = job.iteration
        /\ tables.tests[tests[job.test]].results = job.iteration
    BY <1>2 DEF SInv, WorkerBook
  <1>4. /\ tests[job.test] \in TestRows(tables)
        /\ tests[job.test] \in DOMAIN tables.tests
        /\ tables.tests[tests[job.test]].of = job.test
        /\ tables.tests[tests[job.test]].iteration \in Iterations
    BY <1>1, <1>2, <1>3, Mapped
  <1>5. tables.tests[tests[job.test]].monitor = FALSE
    BY <1>1, <1>4, TableTypes DEF TestRows
  <1>6. \A j : ~Fresh(job.test, j)
    BY <1>3, <1>4, Values DEF Fresh
  <1>7. runState = "ended" => RunWrite("end") \in Pending
    BY <1>1 DEF SInv, EndBook
  <1> QED
    BY <1>1, <1>2, <1>3, <1>4, <1>5, <1>6, <1>7

LEMMA StopRaisesKeeps ==
    ASSUME SInv, StopRaises
    PROVE  SInv'
  <1>1. PICK t \in Tests, i \in Iterations, id \in TestRows(tables) :
              /\ job.test = t /\ job.iteration = i /\ tests[t] = id /\ id \in DOMAIN tables.tests
              /\ tables.tests[id].of = t
              /\ tables.tests[id].iteration = i
              /\ tables.tests[id].results = i
              /\ ~calledBack
              /\ runState = "ended" => RunWrite("end") \in Pending
    BY Stopping DEF StopRaises
  <1>2. /\ job.what = "stopped" /\ raised' = raised \cup {<<t, i>>} /\ job' = NoJob
        /\ UNCHANGED <<mode, runState, phase, iter, items, infos, reports, atStop, closing>>
        /\ UNCHANGED <<queue, seen, tests, tables, disk, calledBack>>
        /\ Pending' = Pending
    BY <1>1 DEF StopRaises, mainVars, testVars, Pending
  <1>3. NoJob.what = "none" /\ tables \in DBType /\ disk \in DBType /\ TypeOK
    BY StateTypes DEF SInv
  <1>4. TypeOK'
    <2>1. raised' \in SUBSET (Tests \X Iterations)
      BY <1>2, <1>3 DEF TypeOK
    <2>2. job' \in Jobs
      BY <1>2 DEF Jobs
    <2> QED
      BY <1>2, <1>3, <2>1, <2>2 DEF TypeOK
  <1>5. QueueBook'
    BY <1>1, <1>2 DEF SInv, QueueBook, QueueOrder, Order, Precedes
  <1>6. RowBook(tables)' /\ RowBook(disk)'
    <2>1. \A t2 \in Tests : iter[t2] \in Nat
      BY StateTypes DEF SInv
    <2>2. ASSUME NEW tb \in DBType, RowsFit(tb, iter, phase, atStop, raised)
          PROVE  RowsFit(tb, iter, phase, atStop, raised')
      <3>1. \A k \in TestRows(tb) :
                LET row == tb.tests[k]
                IN  row.results # None =>
                       /\ row.items >= atStop[row.of][row.iteration]
                       /\ phase[row.of] = "running" => row.iteration < iter[row.of]
        BY <2>2 DEF RowsFit, RowFits
      <3>2. raised \subseteq raised'
        BY <1>2
      <3>3. \A n \in Nat : n <= n
        OBVIOUS
      <3> QED
        BY <2>1, <2>2, <3>1, <3>2, <3>3, RowsStillFit
    <2> QED
      BY <1>2, <1>3, <2>2 DEF SInv, RowBook
  <1>7. WorkerBook'
    <2>1. \A t2 \in Tests : MapBook(t2)'
      BY <1>1, <1>2 DEF SInv, WorkerBook, MapBook
    <2>2. ASSUME NEW k \in TestRows(tables)
          PROVE  CompleteBook(k)'
      <3>1. CompleteBook(k)
        BY <1>1, Mapped
      <3> QED
        BY <1>1, <1>2, <3>1 DEF CompleteBook
    <2> QED
      BY <1>1, <1>2, <1>3, <2>1, <2>2 DEF SInv, WorkerBook
  <1>8. PendingBook' /\ MainBook'
    BY <1>1, <1>2 DEF SInv, PendingBook, PendingFits, MainBook, Fresh, Accepts
  <1>9. EndBook'
    BY <1>1, <1>2 DEF SInv, EndBook
  <1>10. WholeBook'
    <2> SUFFICES ASSUME Whole', NEW t2 \in Tests
                 PROVE  /\ \A j \in Iterations : j > 0 /\ j <= iter[t2] => IterationBook(t2, j)'
                        /\ MonitorBook(t2)'
      BY <1>2 DEF WholeBook
    <2>1. /\ \A j \in Iterations : j > 0 /\ j <= iter[t2] => IterationBook(t2, j)
          /\ MonitorBook(t2)
      BY <1>2 DEF SInv, WholeBook, Whole, Accepts
    <2>2. \A j \in Iterations : Covered(t2, j) <=> Covered(t2, j)'
      BY <1>2 DEF Covered
    <2>3. ASSUME NEW j \in Iterations, IterationBook(t2, j)
          PROVE  IterationBook(t2, j)'
      <3>1. ASSUME NEW k \in DOMAIN tables.tests, Recorded(k, t2, j)
            PROVE  Recorded(k, t2, j)'
        BY <1>1, <1>2, <2>2, <3>1 DEF Recorded, StoredInFull
      <3> QED
        BY <1>2, <2>2, <2>3, <3>1 DEF IterationBook
    <2>4. MonitorBook(t2)'
      BY <1>2, <1>3, <2>1 DEF MonitorBook, MonitorRows, Finishing, NothingPending, MonitorsLeft
    <2> QED
      BY <2>1, <2>3, <2>4
  <1>11. ItemsBook' /\ JobBook'
    BY <1>2, <1>3 DEF SInv, ItemsBook, JobBook
  <1> QED
    BY <1>4, <1>5, <1>6, <1>7, <1>8, <1>9, <1>10, <1>11 DEF SInv

LEMMA EndStopKeeps ==
    ASSUME SInv, EndStop
    PROVE  SInv'
  <1>1. PICK t \in Tests, i \in Iterations, id \in TestRows(tables) :
              /\ job.test = t /\ job.iteration = i /\ tests[t] = id /\ id \in DOMAIN tables.tests
              /\ tables.tests[id].of = t
              /\ tables.tests[id].iteration = i
              /\ tables.tests[id].results = i
              /\ tables.tests[id].monitor = FALSE
              /\ ~calledBack
              /\ \A j : ~Fresh(t, j)
              /\ runState = "ended" => RunWrite("end") \in Pending
    BY Stopping DEF EndStop
  <1>2. /\ job.what = "stopped" /\ job' = NoJob
        /\ tables' = WithPerc(tables, id, i) /\ disk' = tables'
        /\ UNCHANGED <<mode, runState, phase, iter, items, infos, reports, atStop, closing>>
        /\ UNCHANGED <<queue, seen, tests, raised, calledBack>>
        /\ Pending' = Pending
    BY <1>1 DEF EndStop, Commit, WithPerc, mainVars, testVars, Pending
  <1>3. NoJob.what = "none" /\ tables \in DBType /\ disk \in DBType /\ TypeOK
    BY StateTypes DEF SInv
  <1>4. PICK row \in RowType :
              /\ Changed(tables', tables, id, row)
              /\ tables' \in DBType /\ tables'.run = tables.run /\ tables'.env = tables.env
              /\ row.results = i
              /\ row.items = tables.tests[id].items
              /\ row.infos
              /\ row.perc = i
    <2>1. /\ tables' = WithPerc(tables, id, i) /\ tables \in DBType /\ id \in DOMAIN tables.tests
          /\ i \in Iterations
      BY <1>1, <1>2, <1>3
    <2>2. \E row \in RowType :
              /\ Changed(tables', tables, id, row)
              /\ tables' \in DBType /\ tables'.run = tables.run /\ tables'.env = tables.env
              /\ row.results = tables.tests[id].results
              /\ row.items = tables.tests[id].items
              /\ row.infos
              /\ row.perc = i
      BY <2>1, PercUpdated
    <2> QED
      BY <1>1, <2>2
  <1>5. /\ TestRows(tables') = TestRows(tables)
        /\ DOMAIN tables'.tests = DOMAIN tables.tests
        /\ tables'.tests[id] = row
        /\ row.of = t /\ row.iteration = i /\ row.monitor = FALSE
        /\ \A k \in DOMAIN tables.tests : k # id => tables'.tests[k] = tables.tests[k]
    <2>1. TestRows(tables') = TestRows(tables)
      BY <1>4, ChangedRows
    <2> QED
      BY <1>1, <1>4, <2>1 DEF Changed
  <1>6. TypeOK'
    <2>1. job' \in Jobs
      BY <1>2 DEF Jobs
    <2> QED
      BY <1>2, <1>3, <1>4, <2>1 DEF TypeOK
  <1>7. QueueBook'
    BY <1>1, <1>2 DEF SInv, QueueBook, QueueOrder, Order, Precedes
  <1>8. RowBook(tables)' /\ RowBook(disk)'
    <2>1. RowsFit(tables, iter, phase, atStop, raised)
      BY DEF SInv, RowBook
    <2>2. RowFits(tables.tests[id], iter, phase, atStop, raised)
      BY <2>1 DEF RowsFit
    <2>3. RowFits(row, iter, phase, atStop, raised)
      BY <1>1, <1>4, <1>5, <2>2, Values DEF RowFits
    <2>4. RowsFit(tables', iter, phase, atStop, raised)
      BY <1>4, <2>1, <2>3, ChangedFit
    <2> QED
      BY <1>2, <2>4 DEF RowBook
  <1>9. WorkerBook'
    <2>1. ASSUME NEW t2 \in Tests
          PROVE  MapBook(t2)'
      BY <1>1, <1>2, <1>5, Mapped DEF MapBook, TestRows
    <2>2. ASSUME NEW k \in TestRows(tables)
          PROVE  CompleteBook(k)'
      <3>1. CompleteBook(k) /\ k \in DOMAIN tables.tests
        BY <1>1, Mapped
      <3>2. CASE k = id
        BY <1>4, <1>5, <3>2 DEF CompleteBook
      <3>3. CASE k # id
        BY <1>1, <1>2, <1>5, <3>1, <3>3 DEF CompleteBook
      <3> QED
        BY <3>2, <3>3
    <2> QED
      BY <1>1, <1>2, <1>3, <1>4, <1>5, <2>1, <2>2, Mapped DEF WorkerBook
  <1>10. \A t2 \in Tests, j \in Iterations : Fresh(t2, j) => Fresh(t2, j)'
    <2>1. ASSUME NEW t2 \in Tests, NEW j \in Iterations, Fresh(t2, j)
          PROVE  Fresh(t2, j)'
      <3>1. t2 # t
        BY <1>1, <2>1
      <3>2. /\ tests[t2] # 0 /\ tests[t2] \in DOMAIN tables.tests
            /\ tables.tests[tests[t2]].of = t2
        BY <1>1, <2>1, Mapped DEF Fresh
      <3> QED
        BY <1>1, <1>2, <1>5, <2>1, <3>1, <3>2 DEF Fresh
    <2> QED
      BY <2>1
  <1>11. PendingBook'
    <2> SUFFICES ASSUME NEW w \in TestWrites, w \in Pending'
                 PROVE  PendingFits(w.what, w.test, w.iteration)'
      BY DEF PendingBook
    <2>1. w.test \in Tests /\ w.iteration \in Iterations
      BY WriteFields
    <2>2. PendingFits(w.what, w.test, w.iteration)
      BY <1>1, <1>2 DEF SInv, PendingBook
    <2>3. \A k \in TestRows(tables) :
              /\ tables'.tests[k].of = tables.tests[k].of
              /\ tables'.tests[k].iteration = tables.tests[k].iteration
      BY <1>1, <1>5, Mapped
    <2> QED
      BY <1>2, <1>5, <1>10, <2>1, <2>2, <2>3 DEF PendingFits
  <1>12. MainBook'
    <2> SUFFICES ASSUME Accepts', NEW t2 \in Tests, phase'[t2] = "running",
                        NEW n \in Iterations, n = iter[t2]
                 PROVE  Write("started", t2, n) \in Pending' \/ Fresh(t2, n)'
      BY <1>2, StateTypes DEF SInv, MainBook, Fresh
    <2>1. Write("started", t2, n) \in Pending \/ Fresh(t2, n)
      BY <1>1, <1>2 DEF SInv, MainBook, Accepts
    <2> QED
      BY <1>2, <1>10, <2>1
  <1>13. EndBook'
    BY <1>1, <1>2 DEF SInv, EndBook
  <1>14. WholeBook'
    <2> SUFFICES ASSUME Whole', NEW t2 \in Tests
                 PROVE  /\ \A j \in Iterations : j > 0 /\ j <= iter[t2] => IterationBook(t2, j)'
                        /\ MonitorBook(t2)'
      BY <1>2 DEF WholeBook
    <2>1. /\ \A j \in Iterations : j > 0 /\ j <= iter[t2] => IterationBook(t2, j)
          /\ MonitorBook(t2)
      BY <1>2 DEF SInv, WholeBook, Whole, Accepts
    <2>2. \A j \in Iterations : Covered(t2, j) <=> Covered(t2, j)'
      BY <1>2 DEF Covered
    <2>3. ASSUME NEW j \in Iterations, IterationBook(t2, j)
          PROVE  IterationBook(t2, j)'
      <3>1. ASSUME NEW k \in DOMAIN tables.tests, Recorded(k, t2, j)
            PROVE  Recorded(k, t2, j)'
        <4>1. CASE k = id
          BY <1>1, <1>4, <1>5, <3>1, <4>1, Values DEF Recorded, StoredInFull
        <4>2. CASE k # id
          BY <1>1, <1>2, <1>5, <2>2, <3>1, <4>2 DEF Recorded, StoredInFull
        <4> QED
          BY <4>1, <4>2
      <3> QED
        BY <1>2, <1>5, <2>2, <2>3, <3>1 DEF IterationBook
    <2>4. MonitorBook(t2)'
      <3>1. MonitorRows(t2)' = MonitorRows(t2)
        BY <1>1, <1>5 DEF MonitorRows
      <3> QED
        BY <1>2, <1>3, <2>1, <3>1 DEF MonitorBook, Finishing, NothingPending, MonitorsLeft
    <2> QED
      BY <2>1, <2>3, <2>4
  <1>15. ItemsBook' /\ JobBook'
    BY <1>2, <1>3 DEF SInv, ItemsBook, JobBook
  <1> QED
    BY <1>6, <1>7, <1>8, <1>9, <1>11, <1>12, <1>13, <1>14, <1>15 DEF SInv

\* The test is done, and the write that is taken was its last one.
LEMMA LastWrite ==
    ASSUME SInv, NEW t \in Tests, NEW i \in Iterations, TakesTest("finished", t, i),
           UNCHANGED <<phase, iter>>
    PROVE  /\ phase[t] = "done"
           /\ NothingPending(t)' /\ ~Finishing(t)'
           /\ Whole => Finishing(t) /\ MonitorRows(t) = {}
           /\ \A t2 \in Tests : t2 # t => (Finishing(t2) <=> Finishing(t2)')
           /\ \A t2 \in Tests : NothingPending(t2) => NothingPending(t2)'
  <1>1. phase[t] = "done"
    BY DEF TakesTest, PendingFits
  <1>2. NothingPending(t)'
    BY DEF TakesTest, Precedes, NothingPending
  <1>3. \A t2 \in Tests : iter[t2] \in Iterations /\ iter'[t2] = iter[t2]
    BY StateTypes DEF SInv
  <1>4. ~Finishing(t)'
    BY <1>2, <1>3, WriteFields DEF Finishing, NothingPending
  <1>5. ASSUME Whole
        PROVE  Finishing(t) /\ MonitorRows(t) = {}
    <2>1. ~NothingPending(t)
      BY WriteFields DEF TakesTest, NothingPending
    <2>2. MonitorBook(t)
      BY <1>5 DEF SInv, WholeBook
    <2> QED
      BY <1>1, <2>1, <2>2 DEF MonitorBook
  <1>6. \A t2 \in Tests : t2 # t => (Finishing(t2) <=> Finishing(t2)')
    BY <1>3 DEF TakesTest, Finishing
  <1>7. \A t2 \in Tests : NothingPending(t2) => NothingPending(t2)'
    BY DEF TakesTest, NothingPending
  <1> QED
    BY <1>1, <1>2, <1>4, <1>5, <1>6, <1>7

LEMMA FinishRaisesKeeps ==
    ASSUME SInv, FinishRaises
    PROVE  SInv'
  <1>1. Takes("finished")
    BY DEF FinishRaises
  <1>2. PICK t \in Tests, i \in Iterations : TakesTest("finished", t, i)
    BY <1>1, TookTest
  <1>3. /\ tests[t] = 0
        /\ UNCHANGED <<job, seen, tests, tables, disk, raised, calledBack>>
        /\ UNCHANGED <<mode, runState, phase, iter, items, infos, reports, atStop, closing>>
    BY <1>2 DEF FinishRaises, Takes, TakesTest, mainVars, testVars, workerVars
  <1>4. /\ ~calledBack /\ calledBack' = FALSE /\ job = NoJob /\ job.what = "none"
        /\ queue' \in Seq(Writes) /\ QueueBook' /\ EndBook'
    BY <1>1, <1>3, Took, StateTypes DEF Whats, SInv
  <1>5. TypeOK'
    BY <1>3, <1>4 DEF SInv, TypeOK
  <1>6. RowBook(tables)' /\ RowBook(disk)' /\ WorkerBook' /\ ItemsBook' /\ JobBook'
    BY <1>3, <1>4 DEF SInv, RowBook, WorkerBook, MapBook, CompleteBook, ItemsBook, JobBook
  <1>7. \A t2 \in Tests, j \in Iterations : Fresh(t2, j) <=> Fresh(t2, j)'
    BY <1>3 DEF Fresh
  <1>8. PendingBook'
    <2> SUFFICES ASSUME NEW w \in TestWrites, w \in Pending'
                 PROVE  PendingFits(w.what, w.test, w.iteration)'
      BY DEF PendingBook
    <2>1. w.test \in Tests /\ w.iteration \in Iterations
      BY WriteFields
    <2>2. PendingFits(w.what, w.test, w.iteration)
      BY <1>2, <1>4 DEF SInv, PendingBook, TakesTest
    <2>3. Write("started", w.test, w.iteration) \in Pending =>
              Write("started", w.test, w.iteration) \in Pending'
      BY <1>2, <2>1 DEF TakesTest
    <2> QED
      BY <1>3, <1>7, <2>1, <2>2, <2>3 DEF PendingFits
  <1>9. MainBook'
    <2> SUFFICES ASSUME Accepts', NEW t2 \in Tests, phase'[t2] = "running",
                        NEW n \in Iterations, n = iter[t2]
                 PROVE  Write("started", t2, n) \in Pending' \/ Fresh(t2, n)'
      BY <1>3, StateTypes DEF SInv, MainBook, Fresh
    <2>1. Write("started", t2, n) \in Pending \/ Fresh(t2, n)
      BY <1>3, <1>4 DEF SInv, MainBook, Accepts
    <2> QED
      BY <1>2, <1>7, <2>1 DEF TakesTest
  <1>10. WholeBook'
    <2> SUFFICES ASSUME Whole', NEW t2 \in Tests
                 PROVE  /\ \A j \in Iterations : j > 0 /\ j <= iter[t2] => IterationBook(t2, j)'
                        /\ MonitorBook(t2)'
      BY <1>3 DEF WholeBook
    <2>1. /\ \A j \in Iterations : j > 0 /\ j <= iter[t2] => IterationBook(t2, j)
          /\ MonitorBook(t2) /\ Whole
      BY <1>3 DEF SInv, WholeBook, Whole, Accepts
    <2>2. \A j \in Iterations : Covered(t2, j) <=> Covered(t2, j)'
      BY <1>2, <1>3 DEF TakesTest, Covered
    <2>3. ASSUME NEW j \in Iterations, IterationBook(t2, j)
          PROVE  IterationBook(t2, j)'
      <3>1. ASSUME NEW k \in DOMAIN tables.tests, Recorded(k, t2, j)
            PROVE  Recorded(k, t2, j)'
        BY <1>3, <2>2, <3>1 DEF Recorded, StoredInFull
      <3>2. Write("started", t2, j) \in Pending => Write("started", t2, j) \in Pending'
        BY <1>2 DEF TakesTest
      <3> QED
        BY <1>3, <2>2, <2>3, <3>1, <3>2 DEF IterationBook
    <2>4. MonitorBook(t2)'
      <3>1. MonitorRows(t2)' = MonitorRows(t2)
        BY <1>3 DEF MonitorRows
      <3>2. CASE t2 = t
        BY <1>2, <1>3, <2>1, <3>1, <3>2, LastWrite DEF MonitorBook
      <3>3. CASE t2 # t
        BY <1>2, <1>3, <2>1, <3>1, <3>3, LastWrite DEF MonitorBook, MonitorsLeft
      <3> QED
        BY <3>2, <3>3
    <2> QED
      BY <2>1, <2>3, <2>4
  <1> QED
    BY <1>4, <1>5, <1>6, <1>8, <1>9, <1>10 DEF SInv

LEMMA StoreFinishedKeeps ==
    ASSUME SInv, StoreFinished
    PROVE  SInv'
  <1>1. Takes("finished")
    BY DEF StoreFinished
  <1>2. PICK t \in Tests, i \in Iterations : TakesTest("finished", t, i)
    BY <1>1, TookTest
  <1>3. PICK id \in Nat :
           /\ id = tests[t] /\ id # 0
           /\ tables' = WithOverall(tables, id) /\ disk' = tables'
           /\ job' = Monitors(t, NMonitors)
           /\ UNCHANGED <<seen, tests, raised, calledBack>>
           /\ UNCHANGED <<mode, runState, phase, iter, items, infos, reports, atStop, closing>>
    <2>1. tests[t] \in Nat
      BY StateTypes DEF SInv
    <2> QED
      BY <1>2, <2>1 DEF StoreFinished, Commit, WithOverall, Takes, TakesTest, mainVars, testVars
  <1>4. /\ ~calledBack /\ calledBack' = FALSE /\ job = NoJob /\ job.what = "none"
        /\ queue' \in Seq(Writes) /\ QueueBook' /\ EndBook'
    BY <1>1, <1>3, Took, StateTypes DEF Whats, SInv
  <1>5. TypeOK /\ tables \in DBType /\ NoJob.what = "none"
    BY StateTypes DEF SInv
  <1>6. /\ id \in TestRows(tables) /\ id \in DOMAIN tables.tests
        /\ tables.tests[id].of = t
        /\ CompleteBook(id)
    BY <1>3, <1>4, Mapped
  <1>7. PICK row \in RowType :
              /\ Changed(tables', tables, id, row)
              /\ tables' \in DBType /\ tables'.run = tables.run /\ tables'.env = tables.env
              /\ row.results = tables.tests[id].results
              /\ row.items = tables.tests[id].items
              /\ row.infos = tables.tests[id].infos
              /\ row.perc = Overall
    <2>1. tables' = WithOverall(tables, id)
      BY <1>3
    <2> QED
      BY <1>5, <1>6, <2>1, OverallUpdated
  <1>8. /\ TestRows(tables') = TestRows(tables)
        /\ DOMAIN tables'.tests = DOMAIN tables.tests
        /\ tables'.tests[id] = row
        /\ row.of = t /\ row.iteration = tables.tests[id].iteration
        /\ row.monitor = tables.tests[id].monitor
        /\ \A k \in DOMAIN tables.tests : k # id => tables'.tests[k] = tables.tests[k]
    <2>1. TestRows(tables') = TestRows(tables)
      BY <1>7, ChangedRows
    <2> QED
      BY <1>6, <1>7, <2>1 DEF Changed
  <1>9. /\ job' \in Jobs
        /\ NMonitors = 0 => job' = NoJob
        /\ NMonitors # 0 => job'.what = "monitors" /\ job'.test = t /\ job'.iteration = NMonitors
        /\ job'.what # "stopped"
    BY <1>3, <1>5, Values DEF Monitors, Write, Jobs
  <1>10. TypeOK'
    BY <1>3, <1>4, <1>5, <1>7, <1>9 DEF TypeOK
  <1>11. RowBook(tables)' /\ RowBook(disk)'
    <2>1. RowsFit(tables, iter, phase, atStop, raised)
      BY DEF SInv, RowBook
    <2>2. RowFits(tables.tests[id], iter, phase, atStop, raised)
      BY <1>6, <2>1 DEF RowsFit
    <2>3. \/ row.results = None
          \/ row.infos
          \/ <<row.of, row.iteration>> \in raised
      BY <1>4, <1>6, <1>7, <1>8 DEF CompleteBook
    <2>4. RowFits(row, iter, phase, atStop, raised)
      BY <1>6, <1>7, <1>8, <2>2, <2>3 DEF RowFits
    <2>5. RowsFit(tables', iter, phase, atStop, raised)
      BY <1>7, <2>1, <2>4, ChangedFit
    <2> QED
      BY <1>3, <2>5 DEF RowBook
  <1>12. WorkerBook'
    <2>1. ASSUME NEW t2 \in Tests
          PROVE  MapBook(t2)'
      BY <1>3, <1>4, <1>6, <1>8, Mapped DEF MapBook, TestRows
    <2>2. ASSUME NEW k \in TestRows(tables)
          PROVE  CompleteBook(k)'
      <3>1. CompleteBook(k) /\ k \in DOMAIN tables.tests
        BY <1>4, Mapped
      <3>2. CASE k = id
        BY <1>3, <1>4, <1>6, <1>7, <1>8, <3>2 DEF CompleteBook
      <3>3. CASE k # id
        BY <1>3, <1>4, <1>8, <3>1, <3>3 DEF CompleteBook
      <3> QED
        BY <3>2, <3>3
    <2> QED
      BY <1>4, <1>7, <1>8, <1>9, <2>1, <2>2, Mapped DEF WorkerBook
  <1>13. \A t2 \in Tests, j \in Iterations : t2 # t /\ Fresh(t2, j) => Fresh(t2, j)'
    BY <1>3, <1>4, <1>6, <1>8, Mapped DEF Fresh
  <1>14. /\ phase[t] = "done"
         /\ NothingPending(t)' /\ ~Finishing(t)'
         /\ Whole => Finishing(t) /\ MonitorRows(t) = {}
         /\ \A t2 \in Tests : t2 # t => (Finishing(t2) <=> Finishing(t2)')
         /\ \A t2 \in Tests : NothingPending(t2) => NothingPending(t2)'
    BY <1>2, <1>3, LastWrite
  <1>15. PendingBook'
    <2> SUFFICES ASSUME NEW w \in TestWrites, w \in Pending'
                 PROVE  PendingFits(w.what, w.test, w.iteration)'
      BY DEF PendingBook
    <2>1. w.test \in Tests /\ w.iteration \in Iterations /\ w.test # t
      BY <1>14, WriteFields DEF NothingPending
    <2>2. PendingFits(w.what, w.test, w.iteration)
      BY <1>2, <1>4 DEF SInv, PendingBook, TakesTest
    <2>3. Write("started", w.test, w.iteration) \in Pending =>
              Write("started", w.test, w.iteration) \in Pending'
      BY <1>2, <2>1 DEF TakesTest
    <2>4. \A k \in TestRows(tables) :
              /\ tables'.tests[k].of = tables.tests[k].of
              /\ tables'.tests[k].iteration = tables.tests[k].iteration
      BY <1>4, <1>6, <1>8, Mapped
    <2> QED
      BY <1>3, <1>8, <1>13, <2>1, <2>2, <2>3, <2>4 DEF PendingFits
  <1>16. MainBook'
    <2> SUFFICES ASSUME Accepts', NEW t2 \in Tests, phase'[t2] = "running",
                        NEW n \in Iterations, n = iter[t2]
                 PROVE  Write("started", t2, n) \in Pending' \/ Fresh(t2, n)'
      BY <1>3, StateTypes DEF SInv, MainBook, Fresh
    <2>1. Write("started", t2, n) \in Pending \/ Fresh(t2, n)
      BY <1>3, <1>4 DEF SInv, MainBook, Accepts
    <2>2. t2 # t
      BY <1>3, <1>14
    <2>3. Write("started", t2, n) \in Pending => Write("started", t2, n) \in Pending'
      BY <1>2 DEF TakesTest
    <2> QED
      BY <1>13, <2>1, <2>2, <2>3
  <1>17. WholeBook'
    <2> SUFFICES ASSUME Whole', NEW t2 \in Tests
                 PROVE  /\ \A j \in Iterations : j > 0 /\ j <= iter[t2] => IterationBook(t2, j)'
                        /\ MonitorBook(t2)'
      BY <1>3 DEF WholeBook
    <2>1. /\ \A j \in Iterations : j > 0 /\ j <= iter[t2] => IterationBook(t2, j)
          /\ MonitorBook(t2) /\ Whole
      BY <1>3 DEF SInv, WholeBook, Whole, Accepts
    <2>2. \A j \in Iterations : Covered(t2, j) <=> Covered(t2, j)'
      BY <1>2, <1>3 DEF TakesTest, Covered
    <2>3. ASSUME NEW j \in Iterations, IterationBook(t2, j)
          PROVE  IterationBook(t2, j)'
      <3>1. ASSUME NEW k \in DOMAIN tables.tests, Recorded(k, t2, j)
            PROVE  Recorded(k, t2, j)'
        <4>1. CASE k = id
          <5>1. \/ row.results # None /\ row.infos
                \/ <<row.of, row.iteration>> \in raised
                \/ Covered(t2, j)'
            BY <1>4, <1>6, <1>7, <1>8, <2>2, <3>1, <4>1 DEF Recorded, StoredInFull
          <5>2. tables'.tests[k].perc # None
            BY <1>7, <1>8, <4>1, Values
          <5> QED
            BY <1>3, <1>6, <1>8, <3>1, <4>1, <5>1, <5>2 DEF Recorded, StoredInFull
        <4>2. CASE k # id
          BY <1>3, <1>4, <1>8, <2>2, <3>1, <4>2 DEF Recorded, StoredInFull
        <4> QED
          BY <4>1, <4>2
      <3>2. Write("started", t2, j) \in Pending => Write("started", t2, j) \in Pending'
        BY <1>2 DEF TakesTest
      <3> QED
        BY <1>8, <2>2, <2>3, <3>1, <3>2 DEF IterationBook
    <2>4. MonitorBook(t2)'
      <3>1. MonitorRows(t2)' = MonitorRows(t2)
        BY <1>6, <1>7, <1>8 DEF MonitorRows
      <3>2. CASE t2 = t
        <4>1. MonitorRows(t)' = {} /\ Cardinality(MonitorRows(t)') = 0
          BY <1>14, <2>1, <3>1, <3>2, FS_EmptySet
        <4>2. MonitorsLeft(t)' = NMonitors
          BY <1>5, <1>9 DEF MonitorsLeft
        <4>3. NMonitors - NMonitors = 0
          BY Values
        <4> QED
          BY <1>14, <3>2, <4>1, <4>2, <4>3, FS_EmptySet DEF MonitorBook
      <3>3. CASE t2 # t
        <4>1. MonitorsLeft(t2)' = 0 /\ MonitorsLeft(t2) = 0
          BY <1>4, <1>5, <1>9, <3>3 DEF MonitorsLeft
        <4> QED
          BY <1>3, <1>14, <2>1, <3>1, <3>3, <4>1 DEF MonitorBook
      <3> QED
        BY <3>2, <3>3
    <2> QED
      BY <2>1, <2>3, <2>4
  <1>18. ItemsBook'
    BY <1>3 DEF SInv, ItemsBook
  <1>19. JobBook'
    <2> SUFFICES ASSUME job'.what = "monitors"
                 PROVE  /\ job'.iteration \in 1..NMonitors
                        /\ tests'[job'.test] # 0
                        /\ phase'[job'.test] = "done"
                        /\ NothingPending(t)' /\ job'.test = t
      BY DEF JobBook, NothingPending
    <2>1. NMonitors # 0
      BY <1>5, <1>9
    <2> QED
      BY <1>3, <1>9, <1>14, <2>1, Values
  <1> QED
    BY <1>4, <1>10, <1>11, <1>12, <1>15, <1>16, <1>17, <1>18, <1>19 DEF SInv

\* The row of the results of a monitor of t, when it is committed and when
\* its lists are there.
CommittedRow(t, p) == [Row(t, 0, TRUE) EXCEPT !.perc = Overall, !.parent = p]
FullRow(t, p) == [CommittedRow(t, p) EXCEPT !.results = 0, !.infos = TRUE]

LEMMA MonitorRow ==
    ASSUME NEW t \in Tests, NEW p \in Nat
    PROVE  /\ CommittedRow(t, p) \in RowType /\ CommittedRow(t, p).monitor
           /\ FullRow(t, p) \in RowType /\ FullRow(t, p).monitor
           /\ FullRow(t, p).of = t /\ FullRow(t, p).results # None
  <1>1. 0 \in Nat /\ NULL \in Nat /\ 0 \in Iterations /\ 0 # None
    BY Values DEF NULL
  <1>2. /\ CommittedRow(t, p) \in RowType /\ CommittedRow(t, p).monitor
        /\ CommittedRow(t, p).of = t
    BY <1>1 DEF CommittedRow, Row, RowType
  <1>3. /\ FullRow(t, p) \in RowType /\ FullRow(t, p).monitor
        /\ FullRow(t, p).of = t /\ FullRow(t, p).results # None
    BY <1>1, <1>2 DEF FullRow, RowType
  <1> QED
    BY <1>2, <1>3

LEMMA StoreMonitorKeeps ==
    ASSUME SInv, StoreMonitor
    PROVE  SInv'
  <1>1. job.what = "monitors"
    BY DEF StoreMonitor
  <1>2. PICK t \in Tests, n \in Nat :
           /\ job.test = t /\ job.iteration = n /\ n \in 1..NMonitors
           /\ tests[t] # 0 /\ tests[t] \in Nat
           /\ phase[t] = "done"
           /\ NothingPending(t)
    BY <1>1, StateTypes DEF SInv, JobBook
  <1>3. /\ TypeOK /\ tables \in DBType /\ NoJob.what = "none" /\ ~calledBack
        /\ runState = "ended" => RunWrite("end") \in Pending
    BY <1>1, StateTypes DEF SInv, QueueBook, EndBook
  <1>4. PICK row, full :
           /\ row \in RowType /\ row.monitor
           /\ full \in RowType /\ full.monitor /\ full.of = t /\ full.results # None
           /\ disk' = Insert(tables, row) /\ tables' = Insert(tables, full)
    <2>1. /\ disk' = Insert(tables, CommittedRow(t, tests[t]))
          /\ tables' = Insert(tables, FullRow(t, tests[t]))
      BY <1>2 DEF StoreMonitor, CommittedRow, FullRow
    <2> QED
      BY <1>2, <2>1, MonitorRow
  <1>5. /\ job' = Monitors(t, n - 1)
        /\ UNCHANGED <<queue, seen, tests, raised, calledBack>>
        /\ UNCHANGED <<mode, runState, phase, iter, items, infos, reports, atStop, closing>>
        /\ Pending' = Pending
    BY <1>2 DEF StoreMonitor, mainVars, testVars, Pending
  <1>6. /\ tables' \in DBType /\ disk' \in DBType
        /\ Grown(tables', tables, LastId(tables'), full)
        /\ Grown(disk', tables, LastId(disk'), row)
        /\ tables'.run = tables.run /\ tables'.env = tables.env
    BY <1>3, <1>4, InsertedGrown
  <1>7. PICK id : Grown(tables', tables, id, full)
    BY <1>6
  <1>8. /\ TestRows(tables') = TestRows(tables)
        /\ \A k \in DOMAIN tables.tests : tables'.tests[k] = tables.tests[k] /\ k # id
        /\ DOMAIN tables'.tests = DOMAIN tables.tests \cup {id}
        /\ id \notin DOMAIN tables.tests
        /\ tables'.tests[id] = full
    <2>1. TestRows(tables') = TestRows(tables)
      <3>1. full.monitor \in BOOLEAN
        BY <1>4 DEF RowType
      <3>2. full.monitor => TestRows(tables') = TestRows(tables)
        BY <1>7, <3>1, GrownRows
      <3> QED
        BY <1>4, <3>2
    <2> QED
      BY <1>7, <2>1 DEF Grown
  <1>9. /\ job' \in Jobs
        /\ n - 1 = 0 => job' = NoJob
        /\ n - 1 # 0 => job'.what = "monitors" /\ job'.test = t /\ job'.iteration = n - 1
        /\ job'.what # "stopped"
    BY <1>2, <1>3, <1>5, Values DEF Monitors, Write, Jobs
  <1>10. TypeOK'
    BY <1>3, <1>5, <1>6, <1>9 DEF TypeOK
  <1>11. QueueBook'
    BY <1>3, <1>5 DEF SInv, QueueBook, QueueOrder, Order, Precedes
  <1>12. RowBook(tables)' /\ RowBook(disk)'
    <2>1. RowsFit(tables, iter, phase, atStop, raised)
      BY DEF SInv, RowBook
    <2>2. row.monitor \in BOOLEAN /\ full.monitor \in BOOLEAN
      BY <1>4 DEF RowType
    <2>3. RowsFit(tables', iter, phase, atStop, raised)
      BY <1>4, <1>7, <2>1, <2>2, GrownFit
    <2>4. RowsFit(disk', iter, phase, atStop, raised)
      BY <1>4, <1>6, <2>1, <2>2, GrownFit
    <2> QED
      BY <1>5, <2>3, <2>4 DEF RowBook
  <1>13. WorkerBook'
    <2>1. ASSUME NEW t2 \in Tests
          PROVE  MapBook(t2)'
      BY <1>3, <1>5, <1>8, Mapped DEF MapBook
    <2>2. ASSUME NEW k \in TestRows(tables)
          PROVE  CompleteBook(k)'
      BY <1>1, <1>3, <1>5, <1>8, Mapped DEF CompleteBook
    <2> QED
      BY <1>3, <1>6, <1>8, <1>9, <2>1, <2>2, Mapped DEF WorkerBook
  <1>14. \A t2 \in Tests, j \in Iterations : Fresh(t2, j) => Fresh(t2, j)'
    BY <1>3, <1>5, <1>8, Mapped DEF Fresh
  <1>15. PendingBook'
    <2> SUFFICES ASSUME NEW w \in TestWrites, w \in Pending'
                 PROVE  PendingFits(w.what, w.test, w.iteration)'
      BY DEF PendingBook
    <2>1. w.test \in Tests /\ w.iteration \in Iterations
      BY WriteFields
    <2>2. PendingFits(w.what, w.test, w.iteration)
      BY <1>3, <1>5 DEF SInv, PendingBook
    <2>3. \A k \in TestRows(tables) : tables'.tests[k] = tables.tests[k]
      BY <1>3, <1>8, Mapped
    <2> QED
      BY <1>5, <1>8, <1>14, <2>1, <2>2, <2>3 DEF PendingFits
  <1>16. MainBook'
    <2> SUFFICES ASSUME Accepts', NEW t2 \in Tests, phase'[t2] = "running",
                        NEW j \in Iterations, j = iter[t2]
                 PROVE  Write("started", t2, j) \in Pending' \/ Fresh(t2, j)'
      BY <1>5, StateTypes DEF SInv, MainBook, Fresh
    <2>1. Write("started", t2, j) \in Pending \/ Fresh(t2, j)
      BY <1>3, <1>5 DEF SInv, MainBook, Accepts
    <2> QED
      BY <1>5, <1>14, <2>1
  <1>17. EndBook'
    BY <1>3, <1>5 DEF SInv, EndBook
  <1>18. WholeBook'
    <2> SUFFICES ASSUME Whole', NEW t2 \in Tests
                 PROVE  /\ \A j \in Iterations : j > 0 /\ j <= iter[t2] => IterationBook(t2, j)'
                        /\ MonitorBook(t2)'
      BY <1>5 DEF WholeBook
    <2>1. /\ \A j \in Iterations : j > 0 /\ j <= iter[t2] => IterationBook(t2, j)
          /\ MonitorBook(t2)
      BY <1>5 DEF SInv, WholeBook, Whole, Accepts
    <2>2. \A j \in Iterations : Covered(t2, j) <=> Covered(t2, j)'
      BY <1>5 DEF Covered
    <2>3. ASSUME NEW j \in Iterations, IterationBook(t2, j)
          PROVE  IterationBook(t2, j)'
      <3>1. ASSUME NEW k \in DOMAIN tables.tests, Recorded(k, t2, j)
            PROVE  Recorded(k, t2, j)'
        BY <1>1, <1>5, <1>8, <2>2, <3>1 DEF Recorded, StoredInFull
      <3> QED
        BY <1>5, <1>8, <2>2, <2>3, <3>1 DEF IterationBook
    <2>4. /\ Finishing(t2) <=> Finishing(t2)'
          /\ NothingPending(t2) <=> NothingPending(t2)'
      BY <1>5 DEF Finishing, NothingPending
    <2>5. CASE t2 # t
      <3>1. MonitorRows(t2)' = MonitorRows(t2)
        BY <1>4, <1>8, <2>5 DEF MonitorRows
      <3>2. MonitorsLeft(t2) = 0 /\ MonitorsLeft(t2)' = 0
        BY <1>2, <1>3, <1>9, <2>5 DEF MonitorsLeft
      <3>3. MonitorBook(t2)'
        BY <1>5, <2>1, <2>4, <3>1, <3>2 DEF MonitorBook
      <3> QED
        BY <2>1, <2>3, <3>3
    <2>6. CASE t2 = t
      <3>1. MonitorRows(t)' = MonitorRows(t) \cup {id} /\ id \notin MonitorRows(t)
        BY <1>4, <1>8 DEF MonitorRows
      <3>2. ~Finishing(t)
        <4>1. iter[t] \in Iterations
          BY StateTypes DEF SInv
        <4> QED
          BY <1>2, <4>1, WriteFields DEF Finishing, NothingPending
      <3>3. /\ IsFiniteSet(MonitorRows(t))
            /\ Cardinality(MonitorRows(t)) = NMonitors - n
        BY <1>1, <1>2, <2>1, <2>6, <3>2 DEF MonitorBook, MonitorsLeft
      <3>4. /\ IsFiniteSet(MonitorRows(t)')
            /\ Cardinality(MonitorRows(t)') = Cardinality(MonitorRows(t)) + 1
        BY <3>1, <3>3, FS_AddElement
      <3>5. MonitorsLeft(t)' = n - 1
        BY <1>2, <1>3, <1>9 DEF MonitorsLeft
      <3>6. (NMonitors - n) + 1 = NMonitors - (n - 1)
        BY <1>2, Values
      <3>7. MonitorBook(t)'
        BY <1>2, <1>5, <2>4, <2>6, <3>2, <3>3, <3>4, <3>5, <3>6 DEF MonitorBook
      <3> QED
        BY <2>1, <2>3, <2>6, <3>7
    <2> QED
      BY <2>5, <2>6
  <1>19. ItemsBook'
    BY <1>5 DEF SInv, ItemsBook
  <1>20. JobBook'
    <2> SUFFICES ASSUME job'.what = "monitors"
                 PROVE  /\ job'.iteration \in 1..NMonitors
                        /\ tests'[job'.test] # 0
                        /\ phase'[job'.test] = "done"
                        /\ NothingPending(t)' /\ job'.test = t
      BY DEF JobBook, NothingPending
    <2>1. n - 1 # 0
      BY <1>3, <1>9
    <2>2. NothingPending(t)'
      BY <1>2, <1>5 DEF NothingPending
    <2> QED
      BY <1>2, <1>5, <1>9, <2>1, <2>2, Values
  <1> QED
    BY <1>10, <1>11, <1>12, <1>13, <1>15, <1>16, <1>17, <1>18, <1>19, <1>20 DEF SInv

-----------------------------------------------------------------------------
(* The steps of the main loop.                                             *)

LEMMA Submitted ==
    ASSUME SInv, NEW w \in Writes, Submit(w),
           Accepts => \A v \in Pending : Order(v, w)
    PROVE  /\ queue' \in Seq(Writes) /\ QueueOrder'
           /\ Accepts => Pending' = Pending \cup {w}
           /\ ~Accepts => queue' = queue /\ Pending' = Pending
  <1>1. queue \in Seq(Writes) /\ QueueOrder
    BY DEF SInv, TypeOK, QueueBook
  <1>2. CASE Accepts
    <2>1. queue' = Append(queue, w)
      BY <1>2 DEF Submit, Accepts
    <2> QED
      BY <1>1, <1>2, <2>1, Enqueued
  <1>3. CASE ~Accepts
    <2>1. queue' = queue
      BY <1>3 DEF Submit, Accepts
    <2> QED
      BY <1>1, <1>3, <2>1 DEF QueueOrder, Order, Precedes, Pending
  <1> QED
    BY <1>2, <1>3

\* What is queued when the storage is asked to write about t.
LEMMA SubmittedTest ==
    ASSUME SInv, ~calledBack, runState = "begun",
           NEW x \in {"started", "stopped", "finished"}, NEW t \in Tests, NEW i \in Iterations,
           Submit(Write(x, t, i)),
           \A v \in TestWrites : v \in Pending /\ v.test = t => Precedes(v, Write(x, t, i)),
           UNCHANGED <<mode, runState, closing, calledBack>>
    PROVE  /\ queue' \in Seq(Writes) /\ QueueBook'
           /\ \A v \in TestWrites :
                 v \in Pending' <=> v \in Pending \/ (Accepts /\ v = Write(x, t, i))
           /\ \A y \in {"started", "stopped", "finished"}, t2 \in Tests, j \in Iterations :
                 Write(y, t2, j) \in Pending' <=>
                    Write(y, t2, j) \in Pending \/ (Accepts /\ y = x /\ t2 = t /\ j = i)
  <1> DEFINE w == Write(x, t, i)
  <1>1. w \in TestWrites /\ w \in Writes /\ w.what = x /\ w.test = t
    BY WriteFields DEF Writes
  <1>2. /\ RunWrite("end") \notin Pending
        /\ Accepts => RunWrite("close") \notin Pending
    BY DEF SInv, QueueBook, Accepts
  <1>3. Accepts => \A v \in Pending : Order(v, w)
    <2> SUFFICES ASSUME Accepts, NEW v \in Pending
                 PROVE  Order(v, w)
      OBVIOUS
    <2>1. v \in Writes
      BY StateTypes DEF SInv
    <2>2. v.what # "close" /\ v.what # "end"
      BY <1>2, <2>1, WriteFields
    <2>3. v \in TestWrites /\ v.test = t => Precedes(v, w)
      OBVIOUS
    <2> QED
      BY <1>1, <2>2, <2>3 DEF Order
  <1>4. /\ queue' \in Seq(Writes) /\ QueueOrder'
        /\ Accepts => Pending' = Pending \cup {w}
        /\ ~Accepts => queue' = queue /\ Pending' = Pending
    BY <1>1, <1>3, Submitted
  <1>5. \A v : v \in Pending' <=> v \in Pending \/ (Accepts /\ v = w)
    BY <1>4
  <1>6. QueueBook'
    <2>1. RunWrite("end") # w /\ RunWrite("close") # w
      BY <1>1, WriteFields
    <2> QED
      BY <1>2, <1>4, <1>5, <2>1 DEF SInv, QueueBook
  <1>7. ASSUME NEW y \in {"started", "stopped", "finished"}, NEW t2 \in Tests, NEW j \in Iterations
        PROVE  Write(y, t2, j) = w <=> y = x /\ t2 = t /\ j = i
    BY WriteFields
  <1> QED
    BY <1>4, <1>5, <1>6, <1>7

\* The rows still fit when the main loop goes on.
LEMMA MainRows ==
    ASSUME SInv, UNCHANGED <<tables, disk, raised>>,
           \A t \in Tests :
              /\ iter'[t] \in Nat /\ iter[t] <= iter'[t]
              /\ phase[t] # "idle" => phase'[t] # "idle",
           \A t \in Tests, i \in Iterations :
              i <= iter[t] /\ phase[t] # "idle" /\ (phase[t] = "running" => i < iter[t]) =>
                 /\ atStop'[t][i] = atStop[t][i]
                 /\ phase'[t] = "running" => i < iter'[t]
    PROVE  RowBook(tables)' /\ RowBook(disk)'
  <1>1. \A t \in Tests : iter[t] \in Nat
    BY StateTypes DEF SInv
  <1>2. ASSUME NEW tb \in DBType, RowsFit(tb, iter, phase, atStop, raised)
        PROVE  RowsFit(tb, iter', phase', atStop', raised)
    <2>1. ASSUME NEW k \in TestRows(tb), tb.tests[k].results # None
          PROVE  LET row == tb.tests[k]
                 IN  /\ row.items >= atStop'[row.of][row.iteration]
                     /\ phase'[row.of] = "running" => row.iteration < iter'[row.of]
      <3>1. tb.tests[k].of \in Tests /\ tb.tests[k].iteration \in Iterations
        BY TableTypes DEF TestRows
      <3>2. LET row == tb.tests[k]
            IN  /\ row.iteration <= iter[row.of]
                /\ phase[row.of] # "idle"
                /\ row.items >= atStop[row.of][row.iteration]
                /\ phase[row.of] = "running" => row.iteration < iter[row.of]
        BY <1>2, <2>1 DEF RowsFit, RowFits
      <3> QED
        BY <3>1, <3>2
    <2> QED
      BY <1>1, <1>2, <2>1, RowsStillFit
  <1> QED
    BY <1>2, StateTypes DEF SInv, RowBook

\* What the worker has to do is as before.
LEMMA MainKeepsWorker ==
    ASSUME SInv, ~calledBack, UNCHANGED workerVars
    PROVE  /\ WorkerBook'
           /\ \A t \in Tests, j \in Iterations : Fresh(t, j) <=> Fresh(t, j)'
           /\ \A t \in Tests : MonitorRows(t)' = MonitorRows(t) /\ MonitorsLeft(t)' = MonitorsLeft(t)
           /\ NoJob.what = "none" /\ (job.what = "monitors" => phase[job.test] = "done")
  <1>1. UNCHANGED <<job, seen, tests, tables, disk, raised, calledBack>>
    BY DEF workerVars
  <1>2. WorkerBook'
    BY <1>1 DEF SInv, WorkerBook, MapBook, CompleteBook
  <1> QED
    BY <1>1, <1>2, StateTypes DEF SInv, JobBook, Fresh, MonitorRows, MonitorsLeft

LEMMA NewTestStartedKeeps ==
    ASSUME SInv, NEW t \in Tests, NewTestStarted(t)
    PROVE  SInv'
  <1>1. PICK n \in Iterations :
           /\ n = iter[t] + 1 /\ iter[t] \in Nat /\ n \in Nat
           /\ phase[t] \in {"idle", "stopped"}
           /\ iter' = [iter EXCEPT ![t] = n]
           /\ phase' = [phase EXCEPT ![t] = "running"]
           /\ items' = [items EXCEPT ![t][n] = items[t][0]]
           /\ infos' = [infos EXCEPT ![t][n] = infos[t][0]]
           /\ Submit(Write("started", t, n))
    <2>1. /\ phase[t] \in {"idle", "stopped"}
          /\ iter[t] < NIters /\ iter[t] \in Nat
      BY StateTypes DEF SInv, NewTestStarted, StartIteration
    <2>2. /\ iter' = [iter EXCEPT ![t] = iter[t] + 1]
          /\ phase' = [phase EXCEPT ![t] = "running"]
          /\ items' = [items EXCEPT ![t][iter[t] + 1] = items[t][0]]
          /\ infos' = [infos EXCEPT ![t][iter[t] + 1] = infos[t][0]]
          /\ Submit(Write("started", t, iter[t] + 1))
      BY DEF NewTestStarted, StartIteration
    <2>3. iter[t] + 1 \in Iterations /\ iter[t] + 1 \in Nat
      BY <2>1, DBStorageAssumption DEF Iterations, DBStorageAssumption
    <2> QED
      BY <2>1, <2>2, <2>3
  <1>2. /\ ~calledBack /\ runState = "begun"
        /\ UNCHANGED <<mode, runState, reports, atStop, closing>> /\ UNCHANGED workerVars
        /\ UNCHANGED <<job, seen, tests, tables, disk, raised, calledBack>>
    BY DEF NewTestStarted, MainRuns, workerVars
  <1>3. TypeOK /\ 0 \in Iterations
    BY Values DEF SInv
  <1>4. /\ phase' \in [Tests -> {"idle", "running", "stopped", "done"}]
        /\ iter' \in [Tests -> Iterations]
        /\ iter'[t] = n /\ phase'[t] = "running"
        /\ \A t2 \in Tests : t2 # t => iter'[t2] = iter[t2] /\ phase'[t2] = phase[t2]
    BY <1>1, <1>3 DEF TypeOK
  <1>5. /\ items' \in [Tests -> [Iterations -> Nat]] /\ infos' \in [Tests -> [Iterations -> Nat]]
        /\ items'[t][n] = items[t][0]
        /\ \A t2 \in Tests, j \in Iterations :
              ~(t2 = t /\ j = n) => items'[t2][j] = items[t2][j]
    BY <1>1, <1>3 DEF TypeOK
  <1>6. ASSUME NEW v \in TestWrites, v \in Pending, v.test = t
        PROVE  v.iteration < n /\ v.what # "finished"
    <2>1. PendingFits(v.what, v.test, v.iteration) /\ v.iteration \in Nat
      BY <1>2, <1>6, WriteFields, Values DEF SInv, PendingBook
    <2> QED
      BY <1>1, <1>6, <2>1 DEF PendingFits
  <1>7. /\ queue' \in Seq(Writes) /\ QueueBook'
        /\ \A v \in TestWrites :
              v \in Pending' <=> v \in Pending \/ (Accepts /\ v = Write("started", t, n))
        /\ \A y \in {"started", "stopped", "finished"}, t2 \in Tests, j \in Iterations :
              Write(y, t2, j) \in Pending' <=>
                 Write(y, t2, j) \in Pending \/ (Accepts /\ y = "started" /\ t2 = t /\ j = n)
    <2>1. ASSUME NEW v \in TestWrites, v \in Pending, v.test = t
          PROVE  Precedes(v, Write("started", t, n))
      <3>1. v.iteration \in Nat
        BY WriteFields, Values
      <3>2. Write("started", t, n).iteration = n
        BY WriteFields
      <3> QED
        BY <1>1, <1>6, <2>1, <3>1, <3>2 DEF Precedes
    <2> QED
      BY <1>1, <1>2, <2>1, SubmittedTest
  <1>8. TypeOK'
    BY <1>2, <1>3, <1>4, <1>5, <1>7 DEF TypeOK
  <1>9. RowBook(tables)' /\ RowBook(disk)'
    <2>1. \A t2 \in Tests :
              /\ iter'[t2] \in Nat /\ iter[t2] <= iter'[t2]
              /\ phase[t2] # "idle" => phase'[t2] # "idle"
      BY <1>1, <1>4, StateTypes DEF SInv
    <2>2. \A t2 \in Tests, i \in Iterations :
              i <= iter[t2] /\ phase[t2] # "idle" /\ (phase[t2] = "running" => i < iter[t2]) =>
                 /\ atStop'[t2][i] = atStop[t2][i]
                 /\ phase'[t2] = "running" => i < iter'[t2]
      BY <1>1, <1>2, <1>4, Values
    <2> QED
      BY <1>2, <2>1, <2>2, MainRows
  <1>10. ItemsBook'
    <2> SUFFICES ASSUME NEW t2 \in Tests
                 PROVE  /\ phase'[t2] = "idle" => iter'[t2] = 0
                        /\ \A j \in Iterations :
                              /\ items'[t2][j] >= atStop[t2][j]
                              /\ j > iter'[t2] => atStop[t2][j] = 0
      BY <1>2 DEF ItemsBook
    <2>1. /\ phase[t2] = "idle" => iter[t2] = 0
          /\ \A j \in Iterations :
                /\ items[t2][j] >= atStop[t2][j]
                /\ j > iter[t2] => atStop[t2][j] = 0
      BY DEF SInv, ItemsBook
    <2>2. atStop[t][n] = 0 /\ items[t][0] \in Nat
      <3>1. n > iter[t]
        BY <1>1
      <3> QED
        BY <1>3, <3>1, StateTypes DEF SInv, ItemsBook
    <2>3. \A j \in Iterations : j > n => j > iter[t]
      BY <1>1, Values
    <2> QED
      BY <1>4, <1>5, <2>1, <2>2, <2>3
  <1>11. /\ WorkerBook'
         /\ \A t2 \in Tests, j \in Iterations : Fresh(t2, j) <=> Fresh(t2, j)'
         /\ \A t2 \in Tests : MonitorRows(t2)' = MonitorRows(t2) /\ MonitorsLeft(t2)' = MonitorsLeft(t2)
         /\ NoJob.what = "none" /\ (job.what = "monitors" => phase[job.test] = "done")
    BY <1>2, MainKeepsWorker
  <1>12. PendingBook'
    <2> SUFFICES ASSUME NEW w \in TestWrites, w \in Pending'
                 PROVE  PendingFits(w.what, w.test, w.iteration)'
      BY DEF PendingBook
    <2>1. w.test \in Tests /\ w.iteration \in Iterations /\ w.iteration \in Nat
      BY WriteFields, Values
    <2>2. CASE w \in Pending
      <3>1. PendingFits(w.what, w.test, w.iteration)
        BY <1>2, <2>2 DEF SInv, PendingBook
      <3>2. /\ w.iteration <= iter'[w.test] /\ phase'[w.test] # "idle"
            /\ phase'[w.test] = "running" /\ w.what = "stopped" => w.iteration < iter'[w.test]
            /\ w.what = "finished" => phase'[w.test] = "done"
        BY <1>1, <1>4, <1>6, <2>1, <2>2, <3>1 DEF PendingFits
      <3> QED
        BY <1>2, <1>7, <1>11, <2>1, <3>1, <3>2 DEF PendingFits
    <2>3. CASE w = Write("started", t, n)
      <3>1. w.what = "started" /\ w.test = t /\ w.iteration = n
        BY <2>3, WriteFields
      <3>2. \A k \in TestRows(tables) :
                tables.tests[k].of = t => tables.tests[k].iteration < n
        <4>1. \A k \in TestRows(tables) : tables.tests[k].iteration <= iter[tables.tests[k].of]
          BY DEF SInv, RowBook, RowsFit, RowFits
        <4> QED
          BY <1>1, <1>2, <4>1, Mapped
      <3>3. n > 0 /\ n <= iter'[t] /\ phase'[t] # "idle"
        BY <1>1, <1>4
      <3> QED
        BY <1>2, <3>1, <3>2, <3>3 DEF PendingFits
    <2> QED
      BY <1>7, <2>2, <2>3
  <1>13. MainBook'
    <2> SUFFICES ASSUME Accepts', NEW t2 \in Tests, phase'[t2] = "running",
                        NEW j \in Iterations, j = iter'[t2]
                 PROVE  Write("started", t2, j) \in Pending' \/ Fresh(t2, j)'
      BY <1>4 DEF SInv, MainBook, Fresh
    <2>1. Accepts
      BY <1>2 DEF Accepts
    <2>2. CASE t2 = t
      BY <1>4, <1>7, <2>1, <2>2
    <2>3. CASE t2 # t
      BY <1>2, <1>4, <1>7, <1>11, <2>1, <2>3 DEF SInv, MainBook
    <2> QED
      BY <2>2, <2>3
  <1>14. EndBook'
    BY <1>2 DEF EndBook
  <1>15. WholeBook'
    <2> SUFFICES ASSUME Whole', NEW t2 \in Tests
                 PROVE  /\ \A j \in Iterations : j > 0 /\ j <= iter'[t2] => IterationBook(t2, j)'
                        /\ MonitorBook(t2)'
      BY <1>2 DEF WholeBook
    <2>1. Accepts
      BY <1>2 DEF Whole, Accepts
    <2>2. /\ \A j \in Iterations : j > 0 /\ j <= iter[t2] => IterationBook(t2, j)
          /\ MonitorBook(t2)
      BY <2>1 DEF SInv, WholeBook, Whole
    <2>3. \A j \in Iterations : Covered(t2, j) => Covered(t2, j)'
      BY <1>1, <1>4, <1>7 DEF Covered
    <2>4. ASSUME NEW j \in Iterations, IterationBook(t2, j)
          PROVE  IterationBook(t2, j)'
      <3>1. ASSUME NEW k \in DOMAIN tables.tests, Recorded(k, t2, j)
            PROVE  Recorded(k, t2, j)'
        BY <1>2, <2>3, <3>1 DEF Recorded, StoredInFull
      <3> QED
        BY <1>2, <1>7, <2>3, <2>4, <3>1 DEF IterationBook
    <2>5. t2 = t => IterationBook(t2, n)'
      BY <1>4, <1>7, <2>1 DEF IterationBook, Covered
    <2>6. ASSUME NEW j \in Iterations, j <= iter'[t2]
          PROVE  j <= iter[t2] \/ (t2 = t /\ j = n)
      BY <1>1, <1>4, <2>6, Values
    <2>7. MonitorBook(t2)'
      <3>1. t2 # t => (Finishing(t2) <=> Finishing(t2)')
        BY <1>4, <1>7, StateTypes DEF Finishing, SInv
      <3>2. t2 # t => (NothingPending(t2) => NothingPending(t2)')
        BY <1>7, WriteFields DEF NothingPending
      <3>3. CASE t2 = t
        BY <1>1, <1>4, <1>11, <2>2, <3>3 DEF MonitorBook
      <3>4. CASE t2 # t
        BY <1>2, <1>4, <1>11, <2>2, <3>1, <3>2, <3>4 DEF MonitorBook
      <3> QED
        BY <3>3, <3>4
    <2> QED
      BY <2>2, <2>4, <2>5, <2>6, <2>7
  <1>16. JobBook'
    <2> SUFFICES ASSUME job.what = "monitors"
                 PROVE  /\ job.iteration \in 1..NMonitors
                        /\ tests[job.test] # 0
                        /\ phase'[job.test] = "done"
                        /\ \A w \in TestWrites : w \in Pending' => w.test # job.test
      BY <1>2 DEF JobBook, NothingPending
    <2>1. /\ job.iteration \in 1..NMonitors /\ tests[job.test] # 0
          /\ phase[job.test] = "done" /\ NothingPending(job.test) /\ job.test \in Tests
      BY StateTypes DEF SInv, JobBook
    <2>2. job.test # t
      BY <1>1, <2>1
    <2> QED
      BY <1>4, <1>7, <2>1, <2>2, WriteFields DEF NothingPending
  <1> QED
    BY <1>2, <1>7, <1>8, <1>9, <1>10, <1>11, <1>12, <1>13, <1>14, <1>15, <1>16 DEF SInv

LEMMA NewTestStoppedKeeps ==
    ASSUME SInv, NEW t \in Tests, NewTestStopped(t)
    PROVE  SInv'
  <1>1. PICK n \in Iterations :
           /\ n = iter[t] /\ n \in Nat
           /\ phase[t] \in {"idle", "running"}
           /\ phase' = [phase EXCEPT ![t] = "stopped"]
           /\ atStop' = [atStop EXCEPT ![t][n] = items[t][n]]
           /\ Submit(Write("stopped", t, n))
    BY StateTypes DEF SInv, NewTestStopped
  <1>2. /\ ~calledBack /\ runState = "begun"
        /\ UNCHANGED <<mode, runState, iter, items, infos, reports, closing>>
        /\ UNCHANGED workerVars
        /\ UNCHANGED <<job, seen, tests, tables, disk, raised, calledBack>>
    BY DEF NewTestStopped, MainRuns, workerVars
  <1>3. TypeOK /\ items[t][n] \in Nat /\ iter \in [Tests -> Iterations]
    BY StateTypes DEF SInv, TypeOK
  <1>4. /\ phase' \in [Tests -> {"idle", "running", "stopped", "done"}]
        /\ phase'[t] = "stopped"
        /\ \A t2 \in Tests : t2 # t => phase'[t2] = phase[t2]
    BY <1>1, <1>3 DEF TypeOK
  <1>5. /\ atStop' \in [Tests -> [Iterations -> Nat]]
        /\ atStop'[t][n] = items[t][n]
        /\ \A t2 \in Tests, j \in Iterations :
              ~(t2 = t /\ j = n) => atStop'[t2][j] = atStop[t2][j]
    BY <1>1, <1>3 DEF TypeOK
  <1>6. ASSUME NEW v \in TestWrites, v \in Pending, v.test = t
        PROVE  v.iteration <= n /\ (v.what = "started" \/ (v.what = "stopped" /\ v.iteration < n))
    <2>1. /\ PendingFits(v.what, v.test, v.iteration) /\ v.iteration \in Nat
          /\ v.what \in {"started", "stopped", "finished"}
      BY <1>2, <1>6, WriteFields, Values DEF SInv, PendingBook
    <2> QED
      BY <1>1, <1>6, <2>1 DEF PendingFits
  <1>7. /\ queue' \in Seq(Writes) /\ QueueBook'
        /\ \A v \in TestWrites :
              v \in Pending' <=> v \in Pending \/ (Accepts /\ v = Write("stopped", t, n))
        /\ \A y \in {"started", "stopped", "finished"}, t2 \in Tests, j \in Iterations :
              Write(y, t2, j) \in Pending' <=>
                 Write(y, t2, j) \in Pending \/ (Accepts /\ y = "stopped" /\ t2 = t /\ j = n)
    <2>1. ASSUME NEW v \in TestWrites, v \in Pending, v.test = t
          PROVE  Precedes(v, Write("stopped", t, n))
      <3>1. v.iteration \in Nat
        BY WriteFields, Values
      <3>2. Write("stopped", t, n).iteration = n /\ Write("stopped", t, n).what = "stopped"
        BY WriteFields
      <3> QED
        BY <1>1, <1>6, <2>1, <3>1, <3>2 DEF Precedes
    <2> QED
      BY <1>1, <1>2, <2>1, SubmittedTest
  <1>8. TypeOK'
    BY <1>2, <1>3, <1>4, <1>5, <1>7 DEF TypeOK
  <1>9. RowBook(tables)' /\ RowBook(disk)'
    <2>1. \A t2 \in Tests :
              /\ iter'[t2] \in Nat /\ iter[t2] <= iter'[t2]
              /\ phase[t2] # "idle" => phase'[t2] # "idle"
      <3>1. \A m \in Nat : m <= m
        OBVIOUS
      <3> QED
        BY <1>2, <1>4, <3>1, StateTypes DEF SInv
    <2>2. \A t2 \in Tests, i \in Iterations :
              i <= iter[t2] /\ phase[t2] # "idle" /\ (phase[t2] = "running" => i < iter[t2]) =>
                 /\ atStop'[t2][i] = atStop[t2][i]
                 /\ phase'[t2] = "running" => i < iter'[t2]
      BY <1>1, <1>2, <1>4, <1>5, Values
    <2> QED
      BY <1>2, <2>1, <2>2, MainRows
  <1>10. ItemsBook'
    <2> SUFFICES ASSUME NEW t2 \in Tests
                 PROVE  /\ phase'[t2] = "idle" => iter[t2] = 0
                        /\ \A j \in Iterations :
                              /\ items[t2][j] >= atStop'[t2][j]
                              /\ j > iter[t2] => atStop'[t2][j] = 0
      BY <1>2 DEF ItemsBook
    <2>1. /\ phase[t2] = "idle" => iter[t2] = 0
          /\ \A j \in Iterations :
                /\ items[t2][j] >= atStop[t2][j]
                /\ j > iter[t2] => atStop[t2][j] = 0
      BY DEF SInv, ItemsBook
    <2>2. ~(n > iter[t])
      BY <1>1
    <2> QED
      BY <1>3, <1>4, <1>5, <2>1, <2>2
  <1>11. /\ WorkerBook'
         /\ \A t2 \in Tests, j \in Iterations : Fresh(t2, j) <=> Fresh(t2, j)'
         /\ \A t2 \in Tests : MonitorRows(t2)' = MonitorRows(t2) /\ MonitorsLeft(t2)' = MonitorsLeft(t2)
         /\ NoJob.what = "none" /\ (job.what = "monitors" => phase[job.test] = "done")
    BY <1>2, MainKeepsWorker
  <1>12. PendingBook'
    <2> SUFFICES ASSUME NEW w \in TestWrites, w \in Pending'
                 PROVE  PendingFits(w.what, w.test, w.iteration)'
      BY DEF PendingBook
    <2>1. w.test \in Tests /\ w.iteration \in Iterations /\ w.iteration \in Nat
      BY WriteFields, Values
    <2>2. CASE w \in Pending
      <3>1. PendingFits(w.what, w.test, w.iteration)
        BY <1>2, <2>2 DEF SInv, PendingBook
      <3>2. /\ w.iteration <= iter'[w.test] /\ phase'[w.test] # "idle"
            /\ phase'[w.test] = "running" /\ w.what = "stopped" => w.iteration < iter'[w.test]
            /\ w.what = "finished" => phase'[w.test] = "done"
        BY <1>1, <1>2, <1>4, <1>6, <2>1, <2>2, <3>1 DEF PendingFits
      <3> QED
        BY <1>2, <1>7, <1>11, <2>1, <3>1, <3>2 DEF PendingFits
    <2>3. CASE Accepts /\ w = Write("stopped", t, n)
      <3>1. w.what = "stopped" /\ w.test = t /\ w.iteration = n
        BY <2>3, WriteFields
      <3>2. \/ Write("started", t, n) \in Pending
            \/ Fresh(t, n)
            \/ n = 0 /\ tests[t] = 0
        <4>1. CASE phase[t] = "running"
          BY <1>1, <1>2, <2>3, <4>1 DEF SInv, MainBook
        <4>2. CASE phase[t] = "idle"
          <5>1. n = 0
            BY <1>1, <4>2 DEF SInv, ItemsBook
          <5>2. tests[t] # 0 => phase[t] # "idle"
            <6>1. \A k \in TestRows(tables) : phase[tables.tests[k].of] # "idle"
              BY DEF SInv, RowBook, RowsFit, RowFits
            <6> QED
              BY <1>2, <6>1, Mapped
          <5> QED
            BY <4>2, <5>1, <5>2
        <4> QED
          BY <1>1, <4>1, <4>2
      <3>3. n <= iter'[t] /\ phase'[t] = "stopped"
        BY <1>1, <1>2, <1>4
      <3> QED
        BY <1>2, <1>7, <1>11, <3>1, <3>2, <3>3 DEF PendingFits
    <2> QED
      BY <1>7, <2>2, <2>3
  <1>13. MainBook'
    <2> SUFFICES ASSUME Accepts', NEW t2 \in Tests, phase'[t2] = "running",
                        NEW j \in Iterations, j = iter[t2]
                 PROVE  Write("started", t2, j) \in Pending' \/ Fresh(t2, j)'
      BY <1>2, <1>3 DEF SInv, MainBook, Fresh
    <2>1. Accepts /\ phase[t2] = "running"
      BY <1>2, <1>4 DEF Accepts
    <2> QED
      BY <1>2, <1>7, <1>11, <2>1 DEF SInv, MainBook
  <1>14. EndBook'
    BY <1>2 DEF EndBook
  <1>15. WholeBook'
    <2> SUFFICES ASSUME Whole', NEW t2 \in Tests
                 PROVE  /\ \A j \in Iterations : j > 0 /\ j <= iter[t2] => IterationBook(t2, j)'
                        /\ MonitorBook(t2)'
      BY <1>2 DEF WholeBook
    <2>1. Accepts
      BY <1>2 DEF Whole, Accepts
    <2>2. /\ \A j \in Iterations : j > 0 /\ j <= iter[t2] => IterationBook(t2, j)
          /\ MonitorBook(t2)
      BY <2>1 DEF SInv, WholeBook, Whole
    <2>3. \A j \in Iterations : Covered(t2, j) => Covered(t2, j)'
      BY <1>1, <1>2, <1>4, <1>7, <2>1 DEF Covered
    <2>4. ASSUME NEW j \in Iterations, IterationBook(t2, j)
          PROVE  IterationBook(t2, j)'
      <3>1. ASSUME NEW k \in DOMAIN tables.tests, Recorded(k, t2, j)
            PROVE  Recorded(k, t2, j)'
        BY <1>2, <2>3, <3>1 DEF Recorded, StoredInFull
      <3> QED
        BY <1>2, <1>7, <2>3, <2>4, <3>1 DEF IterationBook
    <2>5. MonitorBook(t2)'
      <3>1. Finishing(t2) <=> Finishing(t2)'
        BY <1>2, <1>7, StateTypes DEF Finishing, SInv
      <3>2. t2 # t => (NothingPending(t2) => NothingPending(t2)')
        BY <1>7, WriteFields DEF NothingPending
      <3>3. CASE t2 = t
        BY <1>1, <1>4, <1>11, <2>2, <3>3 DEF MonitorBook
      <3>4. CASE t2 # t
        BY <1>2, <1>4, <1>11, <2>2, <3>1, <3>2, <3>4 DEF MonitorBook
      <3> QED
        BY <3>3, <3>4
    <2> QED
      BY <2>2, <2>4, <2>5
  <1>16. JobBook'
    <2> SUFFICES ASSUME job.what = "monitors"
                 PROVE  /\ job.iteration \in 1..NMonitors
                        /\ tests[job.test] # 0
                        /\ phase'[job.test] = "done"
                        /\ \A w \in TestWrites : w \in Pending' => w.test # job.test
      BY <1>2 DEF JobBook, NothingPending
    <2>1. /\ job.iteration \in 1..NMonitors /\ tests[job.test] # 0
          /\ phase[job.test] = "done" /\ NothingPending(job.test) /\ job.test \in Tests
      BY StateTypes DEF SInv, JobBook
    <2>2. job.test # t
      BY <1>1, <2>1
    <2> QED
      BY <1>4, <1>7, <2>1, <2>2, WriteFields DEF NothingPending
  <1> QED
    BY <1>2, <1>7, <1>8, <1>9, <1>10, <1>11, <1>12, <1>13, <1>14, <1>15, <1>16 DEF SInv

LEMMA NewTestFinishedKeeps ==
    ASSUME SInv, NEW t \in Tests, NewTestFinished(t)
    PROVE  SInv'
  <1>1. PICK n \in Iterations :
           /\ n = iter[t] /\ n \in Nat
           /\ phase[t] \in {"idle", "stopped"}
           /\ phase' = [phase EXCEPT ![t] = "done"]
           /\ items' = [items EXCEPT ![t][n] = items[t][n] + 1]
           /\ infos' = [infos EXCEPT ![t][n] = infos[t][n] + 1]
           /\ Submit(Write("finished", t, n))
    BY StateTypes DEF SInv, NewTestFinished
  <1>2. /\ ~calledBack /\ runState = "begun"
        /\ UNCHANGED <<mode, runState, iter, reports, atStop, closing>>
        /\ UNCHANGED workerVars
        /\ UNCHANGED <<job, seen, tests, tables, disk, raised, calledBack>>
    BY DEF NewTestFinished, MainRuns, workerVars
  <1>3. TypeOK /\ items[t][n] \in Nat /\ infos[t][n] \in Nat /\ iter \in [Tests -> Iterations]
    BY StateTypes DEF SInv, TypeOK
  <1>4. /\ phase' \in [Tests -> {"idle", "running", "stopped", "done"}]
        /\ phase'[t] = "done"
        /\ \A t2 \in Tests : t2 # t => phase'[t2] = phase[t2]
    BY <1>1, <1>3 DEF TypeOK
  <1>5. /\ items' \in [Tests -> [Iterations -> Nat]] /\ infos' \in [Tests -> [Iterations -> Nat]]
        /\ items'[t][n] = items[t][n] + 1
        /\ \A t2 \in Tests, j \in Iterations :
              ~(t2 = t /\ j = n) => items'[t2][j] = items[t2][j]
    BY <1>1, <1>3 DEF TypeOK
  <1>6. ASSUME NEW v \in TestWrites, v \in Pending, v.test = t
        PROVE  v.iteration <= n /\ v.what \in {"started", "stopped"}
    <2>1. /\ PendingFits(v.what, v.test, v.iteration) /\ v.iteration \in Nat
          /\ v.what \in {"started", "stopped", "finished"}
      BY <1>2, <1>6, WriteFields, Values DEF SInv, PendingBook
    <2> QED
      BY <1>1, <1>6, <2>1 DEF PendingFits
  <1>7. /\ queue' \in Seq(Writes) /\ QueueBook'
        /\ \A v \in TestWrites :
              v \in Pending' <=> v \in Pending \/ (Accepts /\ v = Write("finished", t, n))
        /\ \A y \in {"started", "stopped", "finished"}, t2 \in Tests, j \in Iterations :
              Write(y, t2, j) \in Pending' <=>
                 Write(y, t2, j) \in Pending \/ (Accepts /\ y = "finished" /\ t2 = t /\ j = n)
    <2>1. ASSUME NEW v \in TestWrites, v \in Pending, v.test = t
          PROVE  Precedes(v, Write("finished", t, n))
      <3>1. Write("finished", t, n).iteration = n /\ Write("finished", t, n).what = "finished"
        BY WriteFields
      <3> QED
        BY <1>1, <1>6, <2>1, <3>1 DEF Precedes
    <2> QED
      BY <1>1, <1>2, <2>1, SubmittedTest
  <1>8. TypeOK'
    BY <1>2, <1>3, <1>4, <1>5, <1>7 DEF TypeOK
  <1>9. RowBook(tables)' /\ RowBook(disk)'
    <2>1. \A t2 \in Tests :
              /\ iter'[t2] \in Nat /\ iter[t2] <= iter'[t2]
              /\ phase[t2] # "idle" => phase'[t2] # "idle"
      <3>1. \A m \in Nat : m <= m
        OBVIOUS
      <3> QED
        BY <1>2, <1>4, <3>1, StateTypes DEF SInv
    <2>2. \A t2 \in Tests, i \in Iterations :
              i <= iter[t2] /\ phase[t2] # "idle" /\ (phase[t2] = "running" => i < iter[t2]) =>
                 /\ atStop'[t2][i] = atStop[t2][i]
                 /\ phase'[t2] = "running" => i < iter'[t2]
      BY <1>1, <1>2, <1>4
    <2> QED
      BY <1>2, <2>1, <2>2, MainRows
  <1>10. ItemsBook'
    <2> SUFFICES ASSUME NEW t2 \in Tests
                 PROVE  /\ phase'[t2] = "idle" => iter[t2] = 0
                        /\ \A j \in Iterations :
                              /\ items'[t2][j] >= atStop[t2][j]
                              /\ j > iter[t2] => atStop[t2][j] = 0
      BY <1>2 DEF ItemsBook
    <2>1. /\ phase[t2] = "idle" => iter[t2] = 0
          /\ \A j \in Iterations :
                /\ items[t2][j] >= atStop[t2][j]
                /\ j > iter[t2] => atStop[t2][j] = 0
      BY DEF SInv, ItemsBook
    <2>2. items'[t][n] >= atStop[t][n]
      <3>1. items[t][n] >= atStop[t][n] /\ atStop[t][n] \in Nat
        BY StateTypes DEF SInv, ItemsBook
      <3> QED
        BY <1>3, <1>5, <3>1
    <2> QED
      BY <1>4, <1>5, <2>1, <2>2
  <1>11. /\ WorkerBook'
         /\ \A t2 \in Tests, j \in Iterations : Fresh(t2, j) <=> Fresh(t2, j)'
         /\ \A t2 \in Tests : MonitorRows(t2)' = MonitorRows(t2) /\ MonitorsLeft(t2)' = MonitorsLeft(t2)
         /\ NoJob.what = "none" /\ (job.what = "monitors" => phase[job.test] = "done")
    BY <1>2, MainKeepsWorker
  <1>12. PendingBook'
    <2> SUFFICES ASSUME NEW w \in TestWrites, w \in Pending'
                 PROVE  PendingFits(w.what, w.test, w.iteration)'
      BY DEF PendingBook
    <2>1. w.test \in Tests /\ w.iteration \in Iterations /\ w.iteration \in Nat
      BY WriteFields, Values
    <2>2. CASE w \in Pending
      <3>1. PendingFits(w.what, w.test, w.iteration)
        BY <1>2, <2>2 DEF SInv, PendingBook
      <3>2. /\ w.iteration <= iter'[w.test] /\ phase'[w.test] # "idle"
            /\ phase'[w.test] = "running" /\ w.what = "stopped" => w.iteration < iter'[w.test]
            /\ w.what = "finished" => phase'[w.test] = "done"
        BY <1>1, <1>2, <1>4, <1>6, <2>1, <2>2, <3>1 DEF PendingFits
      <3> QED
        BY <1>2, <1>7, <1>11, <2>1, <3>1, <3>2 DEF PendingFits
    <2>3. CASE w = Write("finished", t, n)
      <3>1. w.what = "finished" /\ w.test = t /\ w.iteration = n
        BY <2>3, WriteFields
      <3>2. n <= iter'[t] /\ phase'[t] = "done"
        BY <1>1, <1>2, <1>4
      <3> QED
        BY <3>1, <3>2 DEF PendingFits
    <2> QED
      BY <1>7, <2>2, <2>3
  <1>13. MainBook'
    <2> SUFFICES ASSUME Accepts', NEW t2 \in Tests, phase'[t2] = "running",
                        NEW j \in Iterations, j = iter[t2]
                 PROVE  Write("started", t2, j) \in Pending' \/ Fresh(t2, j)'
      BY <1>2, <1>3 DEF SInv, MainBook, Fresh
    <2>1. Accepts /\ phase[t2] = "running"
      BY <1>2, <1>4 DEF Accepts
    <2> QED
      BY <1>2, <1>7, <1>11, <2>1 DEF SInv, MainBook
  <1>14. EndBook'
    BY <1>2 DEF EndBook
  <1>15. WholeBook'
    <2> SUFFICES ASSUME Whole', NEW t2 \in Tests
                 PROVE  /\ \A j \in Iterations : j > 0 /\ j <= iter[t2] => IterationBook(t2, j)'
                        /\ MonitorBook(t2)'
      BY <1>2 DEF WholeBook
    <2>1. Accepts
      BY <1>2 DEF Whole, Accepts
    <2>2. /\ \A j \in Iterations : j > 0 /\ j <= iter[t2] => IterationBook(t2, j)
          /\ MonitorBook(t2)
      BY <2>1 DEF SInv, WholeBook, Whole
    <2>3. \A j \in Iterations : Covered(t2, j) => Covered(t2, j)'
      BY <1>1, <1>2, <1>4, <1>7 DEF Covered
    <2>4. ASSUME NEW j \in Iterations, IterationBook(t2, j)
          PROVE  IterationBook(t2, j)'
      <3>1. ASSUME NEW k \in DOMAIN tables.tests, Recorded(k, t2, j)
            PROVE  Recorded(k, t2, j)'
        BY <1>2, <2>3, <3>1 DEF Recorded, StoredInFull
      <3> QED
        BY <1>2, <1>7, <2>3, <2>4, <3>1 DEF IterationBook
    <2>5. MonitorBook(t2)'
      <3>1. t2 # t => (Finishing(t2) <=> Finishing(t2)')
        BY <1>2, <1>7, StateTypes DEF Finishing, SInv
      <3>2. t2 # t => (NothingPending(t2) => NothingPending(t2)')
        BY <1>7, WriteFields DEF NothingPending
      <3>3. Finishing(t)'
        BY <1>1, <1>2, <1>7, <2>1 DEF Finishing
      <3>4. CASE t2 = t
        BY <1>1, <1>4, <1>11, <2>2, <3>3, <3>4 DEF MonitorBook
      <3>5. CASE t2 # t
        BY <1>2, <1>4, <1>11, <2>2, <3>1, <3>2, <3>5 DEF MonitorBook
      <3> QED
        BY <3>4, <3>5
    <2> QED
      BY <2>2, <2>4, <2>5
  <1>16. JobBook'
    <2> SUFFICES ASSUME job.what = "monitors"
                 PROVE  /\ job.iteration \in 1..NMonitors
                        /\ tests[job.test] # 0
                        /\ phase'[job.test] = "done"
                        /\ \A w \in TestWrites : w \in Pending' => w.test # job.test
      BY <1>2 DEF JobBook, NothingPending
    <2>1. /\ job.iteration \in 1..NMonitors /\ tests[job.test] # 0
          /\ phase[job.test] = "done" /\ NothingPending(job.test) /\ job.test \in Tests
      BY StateTypes DEF SInv, JobBook
    <2>2. job.test # t
      BY <1>1, <2>1
    <2> QED
      BY <1>4, <1>7, <2>1, <2>2, WriteFields DEF NothingPending
  <1> QED
    BY <1>2, <1>7, <1>8, <1>9, <1>10, <1>11, <1>12, <1>13, <1>14, <1>15, <1>16 DEF SInv

\* A step of the main loop that queues no write about a test.
LEMMA SameWritesKeep ==
    ASSUME SInv, ~calledBack, UNCHANGED workerVars, UNCHANGED <<phase, iter, atStop>>,
           TypeOK', QueueBook', EndBook',
           \A w \in TestWrites : w \in Pending' <=> w \in Pending,
           \A t \in Tests, i \in Iterations : items'[t][i] >= items[t][i],
           Accepts' => Accepts,
           Whole' => Whole
    PROVE  SInv'
  <1>1. /\ UNCHANGED <<job, seen, tests, tables, disk, raised, calledBack>>
        /\ \A m \in Nat : m <= m
    BY DEF workerVars
  <1>2. \A y \in {"started", "stopped", "finished"}, t \in Tests, j \in Iterations :
            Write(y, t, j) \in Pending' <=> Write(y, t, j) \in Pending
    BY WriteFields
  <1>3. RowBook(tables)' /\ RowBook(disk)'
    BY <1>1, StateTypes, MainRows DEF SInv
  <1>4. ItemsBook'
    <2>1. \A t \in Tests, i \in Iterations :
              /\ items'[t][i] \in Nat /\ items[t][i] \in Nat /\ atStop[t][i] \in Nat
              /\ items[t][i] >= atStop[t][i]
      BY StateTypes DEF SInv, TypeOK, ItemsBook
    <2>2. \A t \in Tests, i \in Iterations : items'[t][i] >= atStop[t][i]
      BY <2>1
    <2> QED
      BY <2>2 DEF SInv, ItemsBook
  <1>5. /\ WorkerBook'
        /\ \A t \in Tests, j \in Iterations : Fresh(t, j) <=> Fresh(t, j)'
        /\ \A t \in Tests : MonitorRows(t)' = MonitorRows(t) /\ MonitorsLeft(t)' = MonitorsLeft(t)
    BY MainKeepsWorker
  <1>6. PendingBook'
    <2> SUFFICES ASSUME NEW w \in TestWrites, w \in Pending'
                 PROVE  PendingFits(w.what, w.test, w.iteration)'
      BY DEF PendingBook
    <2>1. w.test \in Tests /\ w.iteration \in Iterations
      BY WriteFields
    <2>2. PendingFits(w.what, w.test, w.iteration)
      BY DEF SInv, PendingBook
    <2> QED
      BY <1>1, <1>2, <1>5, <2>1, <2>2 DEF PendingFits
  <1>7. MainBook'
    <2> SUFFICES ASSUME Accepts', NEW t \in Tests, phase'[t] = "running",
                        NEW j \in Iterations, j = iter[t]
                 PROVE  Write("started", t, j) \in Pending' \/ Fresh(t, j)'
      BY StateTypes DEF SInv, MainBook, Fresh
    <2>1. Write("started", t, j) \in Pending \/ Fresh(t, j)
      BY DEF SInv, MainBook
    <2> QED
      BY <1>2, <1>5, <2>1
  <1>8. WholeBook'
    <2> SUFFICES ASSUME Whole', NEW t \in Tests
                 PROVE  /\ \A j \in Iterations : j > 0 /\ j <= iter[t] => IterationBook(t, j)'
                        /\ MonitorBook(t)'
      BY DEF WholeBook
    <2>1. /\ \A j \in Iterations : j > 0 /\ j <= iter[t] => IterationBook(t, j)
          /\ MonitorBook(t)
      BY DEF SInv, WholeBook
    <2>2. \A j \in Iterations : Covered(t, j) => Covered(t, j)'
      BY <1>2 DEF Covered
    <2>3. ASSUME NEW j \in Iterations, IterationBook(t, j)
          PROVE  IterationBook(t, j)'
      <3>1. ASSUME NEW k \in DOMAIN tables.tests, Recorded(k, t, j)
            PROVE  Recorded(k, t, j)'
        BY <1>1, <2>2, <3>1 DEF Recorded, StoredInFull
      <3> QED
        BY <1>1, <1>2, <2>2, <2>3, <3>1 DEF IterationBook
    <2>4. MonitorBook(t)'
      <3>1. Finishing(t) <=> Finishing(t)'
        BY <1>2, StateTypes DEF Finishing, SInv
      <3>2. NothingPending(t) => NothingPending(t)'
        BY DEF NothingPending
      <3> QED
        BY <1>1, <1>5, <2>1, <3>1, <3>2 DEF MonitorBook
    <2> QED
      BY <2>1, <2>3, <2>4
  <1>9. JobBook'
    BY <1>1 DEF SInv, JobBook, NothingPending
  <1> QED
    BY <1>1, <1>3, <1>4, <1>5, <1>6, <1>7, <1>8, <1>9 DEF SInv

LEMMA ReportKeeps ==
    ASSUME SInv, NEW t \in Tests, Report(t)
    PROVE  SInv'
  <1>1. PICK n \in Iterations :
           /\ n = iter[t]
           /\ reports' = reports + 1
           /\ \/ items' = [items EXCEPT ![t][n] = items[t][n] + 1] /\ UNCHANGED infos
              \/ infos' = [infos EXCEPT ![t][n] = infos[t][n] + 1] /\ UNCHANGED items
    BY StateTypes DEF SInv, Report
  <1>2. /\ ~calledBack /\ UNCHANGED workerVars
        /\ UNCHANGED <<mode, runState, phase, iter, atStop, closing, queue>>
        /\ UNCHANGED <<job, seen, tests, tables, disk, raised, calledBack>>
    BY DEF Report, MainRuns, workerVars
  <1>3. /\ TypeOK /\ reports \in Nat /\ items[t][n] \in Nat /\ infos[t][n] \in Nat
        /\ items \in [Tests -> [Iterations -> Nat]] /\ infos \in [Tests -> [Iterations -> Nat]]
    BY StateTypes DEF SInv, TypeOK
  <1>4. /\ items' \in [Tests -> [Iterations -> Nat]]
        /\ infos' \in [Tests -> [Iterations -> Nat]]
        /\ reports' \in Nat
    <2>1. CASE items' = [items EXCEPT ![t][n] = items[t][n] + 1] /\ UNCHANGED infos
      BY <1>1, <1>3, <2>1
    <2>2. CASE infos' = [infos EXCEPT ![t][n] = infos[t][n] + 1] /\ UNCHANGED items
      BY <1>1, <1>3, <2>2
    <2> QED
      BY <1>1, <2>1, <2>2
  <1>5. \A t2 \in Tests, i \in Iterations : items'[t2][i] >= items[t2][i]
    <2>1. \A m \in Nat : m >= m /\ m + 1 >= m
      OBVIOUS
    <2>2. \A t2 \in Tests, i \in Iterations : items[t2][i] \in Nat
      BY StateTypes DEF SInv
    <2>3. CASE items' = [items EXCEPT ![t][n] = items[t][n] + 1]
      <3>1. items'[t][n] = items[t][n] + 1
        BY <1>3, <2>3
      <3>2. \A t2 \in Tests, i \in Iterations :
                ~(t2 = t /\ i = n) => items'[t2][i] = items[t2][i]
        BY <1>3, <2>3
      <3> QED
        BY <2>1, <2>2, <3>1, <3>2
    <2>4. CASE items' = items
      BY <2>1, <2>2, <2>4
    <2> QED
      BY <1>1, <2>3, <2>4
  <1>6. TypeOK'
    BY <1>2, <1>3, <1>4 DEF TypeOK
  <1>7. Pending' = Pending
    BY <1>2 DEF Pending
  <1>8. QueueBook' /\ EndBook'
    BY <1>2, <1>7 DEF SInv, QueueBook, QueueOrder, Order, Precedes, EndBook
  <1> QED
    BY <1>2, <1>5, <1>6, <1>7, <1>8, SameWritesKeep DEF Accepts, Whole

\* What is queued when the storage is asked to write about the run.
LEMMA SubmittedRun ==
    ASSUME SInv, ~calledBack, runState \in {"new", "begun"}, NEW x \in {"begin", "end"},
           Submit(RunWrite(x)), UNCHANGED <<mode, closing>>
    PROVE  /\ queue' \in Seq(Writes) /\ QueueOrder'
           /\ \A v : v \in Pending' <=> v \in Pending \/ (Accepts /\ v = RunWrite(x))
           /\ \A v \in TestWrites : v \in Pending' <=> v \in Pending
           /\ RunWrite("end") \notin Pending
           /\ RunWrite("close") \in Pending' => mode = "async" /\ closing
           /\ RunWrite("end") \in Pending' <=> Accepts /\ x = "end"
  <1>1. RunWrite(x) \in Writes /\ RunWrite(x) \notin TestWrites /\ RunWrite(x) # RunWrite("close")
    BY WriteFields DEF Writes
  <1>2. /\ RunWrite("end") \notin Pending
        /\ RunWrite("close") \in Pending => ~Accepts
    BY DEF SInv, QueueBook, Accepts
  <1>3. Accepts => \A v \in Pending : Order(v, RunWrite(x))
    <2> SUFFICES ASSUME Accepts, NEW v \in Pending
                 PROVE  Order(v, RunWrite(x))
      OBVIOUS
    <2>1. v \in Writes
      BY StateTypes DEF SInv
    <2>2. v.what # "close" /\ v.what # "end"
      BY <1>2, <2>1, WriteFields
    <2> QED
      BY <1>1, <2>2 DEF Order
  <1>4. /\ queue' \in Seq(Writes) /\ QueueOrder'
        /\ Accepts => Pending' = Pending \cup {RunWrite(x)}
        /\ ~Accepts => queue' = queue /\ Pending' = Pending
    BY <1>1, <1>3, Submitted
  <1>5. \A v : v \in Pending' <=> v \in Pending \/ (Accepts /\ v = RunWrite(x))
    BY <1>4
  <1>6. RunWrite("end") = RunWrite(x) <=> x = "end"
    BY WriteFields
  <1> QED
    BY <1>1, <1>2, <1>4, <1>5, <1>6 DEF Accepts

LEMMA BeginRunKeeps ==
    ASSUME SInv, BeginRun
    PROVE  SInv'
  <1>1. /\ ~calledBack /\ runState = "new" /\ runState' = "begun"
        /\ Submit(RunWrite("begin"))
        /\ UNCHANGED workerVars /\ UNCHANGED calledBack
        /\ UNCHANGED <<mode, phase, iter, items, infos, reports, atStop, closing>>
        /\ UNCHANGED <<job, seen, tests, tables, disk, raised>>
    BY DEF BeginRun, MainRuns, workerVars, testVars
  <1>2. /\ queue' \in Seq(Writes) /\ QueueOrder'
        /\ \A v \in TestWrites : v \in Pending' <=> v \in Pending
        /\ RunWrite("close") \in Pending' => mode = "async" /\ closing
        /\ RunWrite("end") \notin Pending'
    BY <1>1, SubmittedRun
  <1>3. TypeOK'
    BY <1>1, <1>2 DEF SInv, TypeOK
  <1>4. QueueBook' /\ EndBook'
    BY <1>1, <1>2 DEF QueueBook, EndBook
  <1>5. \A t \in Tests, i \in Iterations : items'[t][i] >= items[t][i]
    <2>1. \A m \in Nat : m >= m
      OBVIOUS
    <2> QED
      BY <1>1, <2>1, StateTypes DEF SInv, TypeOK
  <1> QED
    BY <1>1, <1>2, <1>3, <1>4, <1>5, SameWritesKeep DEF Accepts, Whole

LEMMA EndRunKeeps ==
    ASSUME SInv, EndRun
    PROVE  SInv'
  <1>1. /\ ~calledBack /\ runState = "begun"
        /\ runState' = IF closing THEN "cut" ELSE "ended"
        /\ \A t \in Tests : phase[t] = "done" \/ (phase[t] = "stopped" /\ iter[t] = 0)
        /\ Submit(RunWrite("end"))
        /\ UNCHANGED workerVars /\ UNCHANGED calledBack
        /\ UNCHANGED <<mode, phase, iter, items, infos, reports, atStop, closing>>
        /\ UNCHANGED <<job, seen, tests, tables, disk, raised>>
    BY DEF EndRun, MainRuns, workerVars, testVars
  <1>2. /\ queue' \in Seq(Writes) /\ QueueOrder'
        /\ \A v \in TestWrites : v \in Pending' <=> v \in Pending
        /\ RunWrite("close") \in Pending' => mode = "async" /\ closing
        /\ RunWrite("end") \in Pending' <=> Accepts
    BY <1>1, SubmittedRun
  <1>3. runState' \in {"ended", "cut"} /\ (runState' = "ended" => Accepts)
    BY <1>1 DEF Accepts
  <1>4. TypeOK'
    BY <1>1, <1>2, <1>3 DEF SInv, TypeOK
  <1>5. QueueBook' /\ EndBook'
    BY <1>1, <1>2, <1>3 DEF QueueBook, EndBook
  <1>6. \A t \in Tests, i \in Iterations : items'[t][i] >= items[t][i]
    <2>1. \A m \in Nat : m >= m
      OBVIOUS
    <2> QED
      BY <1>1, <2>1, StateTypes DEF SInv, TypeOK
  <1> QED
    BY <1>1, <1>2, <1>3, <1>4, <1>5, <1>6, SameWritesKeep DEF Accepts, Whole

LEMMA CloseKeeps ==
    ASSUME SInv, Close
    PROVE  SInv'
  <1>1. /\ ~calledBack /\ closing = FALSE /\ closing' = TRUE
        /\ queue' = IF mode = "async" THEN Append(queue, RunWrite("close")) ELSE queue
        /\ UNCHANGED workerVars /\ UNCHANGED calledBack
        /\ UNCHANGED <<mode, runState, phase, iter, items, infos, reports, atStop>>
        /\ UNCHANGED <<job, seen, tests, tables, disk, raised>>
    BY DEF Close, MainRuns, workerVars, testVars, SInv, TypeOK
  <1>2. RunWrite("close") \in Writes /\ RunWrite("close") \notin TestWrites
        /\ RunWrite("close").what = "close" /\ RunWrite("close") # RunWrite("end")
    BY WriteFields DEF Writes
  <1>3. \A v \in Pending : Order(v, RunWrite("close"))
    <2>1. RunWrite("close") \notin Pending
      BY <1>1 DEF SInv, QueueBook
    <2>2. \A v \in Pending : v.what # "close"
      BY <2>1, StateTypes, WriteFields DEF SInv
    <2> QED
      BY <1>2, <2>2 DEF Order
  <1>4. /\ queue' \in Seq(Writes) /\ QueueOrder'
        /\ mode = "async" => Pending' = Pending \cup {RunWrite("close")}
        /\ mode # "async" => Pending' = Pending
    <2>1. queue \in Seq(Writes) /\ QueueOrder
      BY DEF SInv, TypeOK, QueueBook
    <2>2. CASE mode = "async"
      BY <1>1, <1>2, <1>3, <2>1, <2>2, Enqueued
    <2>3. CASE mode # "async"
      BY <1>1, <2>1, <2>3 DEF QueueOrder, Order, Precedes, Pending
    <2> QED
      BY <2>2, <2>3
  <1>5. TypeOK'
    BY <1>1, <1>4 DEF SInv, TypeOK
  <1>6. QueueBook'
    BY <1>1, <1>2, <1>4 DEF SInv, QueueBook
  <1>7. EndBook'
    BY <1>1, <1>2, <1>4 DEF SInv, EndBook
  <1>8. \A t \in Tests, i \in Iterations : items'[t][i] >= items[t][i]
    <2>1. \A m \in Nat : m >= m
      OBVIOUS
    <2> QED
      BY <1>1, <2>1, StateTypes DEF SInv, TypeOK
  <1>9. \A w \in TestWrites : w \in Pending' <=> w \in Pending
    BY <1>2, <1>4
  <1> QED
    BY <1>1, <1>5, <1>6, <1>7, <1>8, <1>9, SameWritesKeep DEF Accepts, Whole

-----------------------------------------------------------------------------
(* The specification.                                                      *)

LEMMA InitSInv ==
    Init => SInv
  <1> SUFFICES ASSUME Init
               PROVE  SInv
    OBVIOUS
  <1>1. /\ phase = [t \in Tests |-> "idle"]
        /\ iter = [t \in Tests |-> 0]
        /\ items = [t \in Tests |-> [i \in Iterations |-> 0]]
        /\ infos = [t \in Tests |-> [i \in Iterations |-> 0]]
        /\ atStop = [t \in Tests |-> [i \in Iterations |-> 0]]
        /\ tests = [t \in Tests |-> 0]
        /\ mode \in Modes /\ runState = "new" /\ reports = 0
        /\ closing = FALSE /\ calledBack = FALSE
        /\ queue = <<>> /\ job = NoJob /\ seen = 0 /\ raised = {}
        /\ tables = Empty /\ disk = Empty
    BY DEF Init
  <1>2. /\ Empty \in DBType /\ Empty.run = "none" /\ Empty.env = FALSE
        /\ DOMAIN Empty.tests = {}
    <2>1. /\ Empty.run = "none" /\ Empty.env = FALSE /\ Empty.tests = <<>>
          /\ <<>> \in Seq(RowType) /\ DOMAIN <<>> = {}
      BY EmptySeq DEF Empty
    <2> QED
      BY <2>1 DEF Empty, DBType
  <1>3. TypeOK
    <2>1. 0 \in Iterations /\ 0 \in Nat /\ <<>> \in Seq(Writes)
      BY Values, EmptySeq
    <2>2. [i \in Iterations |-> 0] \in [Iterations -> Nat]
      BY <2>1
    <2> QED
      BY <1>1, <1>2, <2>1, <2>2 DEF TypeOK, Jobs
  <1>4. DOMAIN queue = {} /\ Pending = {}
    BY <1>1 DEF Pending
  <1>5. QueueBook
    BY <1>1, <1>4 DEF QueueBook, QueueOrder
  <1>6. TestRows(tables) = {} /\ TestRows(disk) = {}
    BY <1>1, <1>2 DEF TestRows
  <1>7. RowBook(tables) /\ RowBook(disk)
    BY <1>6 DEF RowBook, RowsFit, OwnRows
  <1>8. ItemsBook
    BY <1>1 DEF ItemsBook
  <1>9. NoJob.what = "none"
    BY WriteFields DEF NoJob
  <1>10. WorkerBook /\ PendingBook /\ MainBook
    <2>1. \A t \in Tests : MapBook(t)
      BY <1>1, <1>6 DEF MapBook
    <2>2. WorkerBook
      BY <1>1, <1>2, <1>6, <1>9, <2>1 DEF WorkerBook
    <2>3. PendingBook /\ MainBook
      BY <1>1, <1>4 DEF PendingBook, MainBook
    <2> QED
      BY <2>2, <2>3
  <1>11. EndBook
    BY <1>1 DEF EndBook
  <1>12. WholeBook
    <2> SUFFICES ASSUME NEW t \in Tests
                 PROVE  /\ \A i \in Iterations : i > 0 /\ i <= iter[t] => IterationBook(t, i)
                        /\ MonitorBook(t)
      BY DEF WholeBook
    <2>1. \A i \in Iterations : ~(i > 0 /\ i <= iter[t])
      BY <1>1, Values
    <2>2. MonitorRows(t) = {} /\ IsFiniteSet({})
      BY <1>1, <1>2, FS_EmptySet DEF MonitorRows
    <2>3. phase[t] = "idle"
      BY <1>1
    <2>4. MonitorBook(t)
      BY <2>2, <2>3 DEF MonitorBook
    <2> QED
      BY <2>1, <2>4
  <1>13. JobBook
    BY <1>1, <1>9 DEF JobBook
  <1> QED
    BY <1>3, <1>5, <1>7, <1>8, <1>10, <1>11, <1>12, <1>13 DEF SInv

LEMMA StutterKeeps ==
    ASSUME SInv, UNCHANGED vars
    PROVE  SInv'
  <1>1. /\ UNCHANGED <<mode, runState, phase, iter, items, infos, reports, atStop, closing>>
        /\ UNCHANGED <<queue, job, seen, tests, tables, disk, raised, calledBack>>
    BY DEF vars, mainVars, testVars, workerVars
  <1>2. Pending' = Pending
    BY <1>1 DEF Pending
  <1>3. TypeOK' /\ ItemsBook' /\ RowBook(tables)' /\ RowBook(disk)'
    BY <1>1 DEF SInv, TypeOK, ItemsBook, RowBook
  <1>4. QueueBook'
    BY <1>1, <1>2 DEF SInv, QueueBook, QueueOrder
  <1>5. ~calledBack' => WorkerBook' /\ PendingBook' /\ MainBook'
    <2>1. ASSUME NEW t \in Tests, NEW i \in Iterations
          PROVE  Fresh(t, i)' <=> Fresh(t, i)
      BY <1>1 DEF Fresh
    <2>2. WorkerBook' <=> WorkerBook
      BY <1>1 DEF WorkerBook, MapBook, CompleteBook
    <2>3. PendingBook' <=> PendingBook
      BY <1>1, <1>2 DEF PendingBook, PendingFits, Fresh
    <2>4. MainBook' <=> MainBook
      BY <1>1, <1>2 DEF MainBook, Accepts, Fresh
    <2> QED
      BY <1>1, <2>2, <2>3, <2>4 DEF SInv
  <1>6. EndBook'
    BY <1>1, <1>2 DEF SInv, EndBook
  <1>7. WholeBook'
    <2>1. ASSUME NEW t \in Tests, NEW i \in Iterations
          PROVE  IterationBook(t, i)' <=> IterationBook(t, i)
      BY <1>1, <1>2 DEF IterationBook, Recorded, Covered, StoredInFull
    <2>2. ASSUME NEW t \in Tests
          PROVE  MonitorBook(t)' <=> MonitorBook(t)
      BY <1>1, <1>2 DEF MonitorBook, MonitorRows, MonitorsLeft, Finishing, NothingPending
    <2> QED
      BY <1>1, <2>1, <2>2 DEF SInv, WholeBook, Whole, Accepts
  <1>8. JobBook'
    BY <1>1, <1>2 DEF SInv, JobBook, NothingPending
  <1> QED
    BY <1>3, <1>4, <1>5, <1>6, <1>7, <1>8 DEF SInv

\* Every step keeps the invariant.
LEMMA NextKeepsSInv ==
    SInv /\ [Next]_vars => SInv'
  <1> SUFFICES ASSUME SInv, [Next]_vars
               PROVE  SInv'
    OBVIOUS
  <1>1. CASE MainStep
    BY <1>1, BeginRunKeeps, EndRunKeeps, CloseKeeps, NewTestStartedKeeps, ReportKeeps,
       NewTestStoppedKeeps, NewTestFinishedKeeps DEF MainStep, TestStep
  <1>2. CASE WorkerStep
    BY <1>2, StoreBeginKeeps, StoreStartedKeeps, BeginStopKeeps, StopRaisesKeeps, EndStopKeeps,
       FinishRaisesKeeps, StoreFinishedKeeps, StoreMonitorKeeps, StoreEndKeeps, CloseDBKeeps
       DEF WorkerStep
  <1>3. CASE UNCHANGED vars
    BY <1>3, StutterKeeps
  <1> QED
    BY <1>1, <1>2, <1>3 DEF Next

LEMMA AlwaysSInv == Spec => []SInv
  BY InitSInv, NextKeepsSInv, PTL DEF Spec

-----------------------------------------------------------------------------
(* What follows.                                                           *)

\* Every variable keeps its type.
THEOREM TypeCorrect == Spec => []TypeOK
  <1>1. SInv => TypeOK
    BY DEF SInv
  <1> QED
    BY <1>1, AlwaysSInv, PTL

\* Although the worker is behind the main loop (__newTestStarted and
\* __newTestStopped run later, and for several tests), each iteration of each
\* test has a row of its own, which holds its results and no other's.
THEOREM RowPerIterationTheorem == Spec => []RowPerIteration
  <1>1. SInv => RowPerIteration
    BY DEF SInv, RowBook, RowsFit, RowFits, OwnRows, RowPerIteration
  <1> QED
    BY <1>1, AlwaysSInv, PTL

\* Killed at any time, the process leaves no row whose percentage was
\* committed before the checklist and the extra information it is about
\* (dbstorage.py 966), unless storing them has raised.
THEOREM PercentageCommittedLastTheorem == Spec => []PercentageCommittedLast
  <1>1. SInv => PercentageCommittedLast
    BY DEF SInv, RowBook, RowsFit, RowFits, PercentageCommittedLast
  <1> QED
    BY <1>1, AlwaysSInv, PTL

\* The checklist that is stored late, from the live list of the test, holds
\* at least what it held when the iteration was stopped.
THEOREM NothingReportedIsMissingTheorem == Spec => []NothingReportedIsMissing
  <1>1. SInv => NothingReportedIsMissing
    <2> SUFFICES ASSUME SInv, NEW k \in TestRows(tables), tables.tests[k].results # None
                 PROVE  tables.tests[k].items >=
                            atStop[tables.tests[k].of][tables.tests[k].results]
      BY DEF NothingReportedIsMissing
    <2> QED
      BY DEF SInv, RowBook, RowsFit, RowFits
  <1> QED
    BY <1>1, AlwaysSInv, PTL

\* When close() calls back after the end of the run, the run, a complete row
\* for each iteration and the results of every monitor are on disk.
THEOREM CallsBackWhenStoredTheorem == Spec => []CallsBackWhenStored
  <1>1. ASSUME SInv, calledBack, runState = "ended"
        PROVE  /\ disk.run = "stopped" /\ disk.env
               /\ \A t \in Tests :
                     /\ \A i \in 1..iter[t] : \E k \in TestRows(disk) :
                           /\ disk.tests[k].of = t /\ disk.tests[k].iteration = i
                           /\ StoredInFull(disk.tests[k])
                     /\ phase[t] = "done" /\ tests[t] # 0 =>
                           Cardinality({k \in DOMAIN disk.tests :
                               /\ disk.tests[k].monitor
                               /\ disk.tests[k].of = t
                               /\ disk.tests[k].results # None}) = NMonitors
    <2>1. queue = <<>> /\ job = NoJob /\ NoJob.what = "none"
      BY <1>1, StateTypes DEF SInv, QueueBook
    <2>2. Pending = {}
      BY <2>1 DEF Pending
    <2>3. /\ tables = disk /\ disk.run = "stopped" /\ disk.env
          /\ \A t \in Tests : phase[t] = "done" \/ (phase[t] = "stopped" /\ iter[t] = 0)
      BY <1>1, <2>2 DEF SInv, EndBook
    <2>4. ASSUME NEW t \in Tests
          PROVE  /\ \A i \in Iterations : i > 0 /\ i <= iter[t] => IterationBook(t, i)
                 /\ MonitorBook(t)
      BY <1>1 DEF SInv, WholeBook, Whole
    <2>5. ASSUME NEW t \in Tests, NEW i \in 1..iter[t]
          PROVE  \E k \in TestRows(disk) :
                    /\ disk.tests[k].of = t /\ disk.tests[k].iteration = i
                    /\ StoredInFull(disk.tests[k])
      <3>1. i \in Iterations /\ i > 0 /\ i <= iter[t]
        BY <1>1, StateTypes, DBStorageAssumption DEF SInv, Iterations, DBStorageAssumption
      <3>2. ~Covered(t, i) /\ Write("started", t, i) \notin Pending
        BY <2>2, <2>3 DEF Covered
      <3> QED
        BY <2>1, <2>3, <2>4, <3>1, <3>2 DEF IterationBook, Recorded
    <2>6. ASSUME NEW t \in Tests, phase[t] = "done", tests[t] # 0
          PROVE  Cardinality({k \in DOMAIN disk.tests :
                     /\ disk.tests[k].monitor
                     /\ disk.tests[k].of = t
                     /\ disk.tests[k].results # None}) = NMonitors
      <3>1. {k \in DOMAIN disk.tests :
                /\ disk.tests[k].monitor
                /\ disk.tests[k].of = t
                /\ disk.tests[k].results # None} = MonitorRows(t)
        BY <2>3 DEF MonitorRows
      <3>2. ~Finishing(t) /\ MonitorsLeft(t) = 0
        BY <2>1, <2>2 DEF Finishing, MonitorsLeft
      <3>3. Cardinality(MonitorRows(t)) = NMonitors - 0
        BY <2>4, <2>6, <3>2 DEF MonitorBook
      <3>4. NMonitors - 0 = NMonitors
        BY Values
      <3> QED
        BY <3>1, <3>3, <3>4, Zenon
    <2> QED
      BY <2>3, <2>5, <2>6
  <1>2. SInv => CallsBackWhenStored
    BY <1>1 DEF CallsBackWhenStored
  <1> QED
    BY <1>2, AlwaysSInv, PTL
=============================================================================
