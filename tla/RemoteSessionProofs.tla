------------------------ MODULE RemoteSessionProofs -------------------------
(***************************************************************************)
(* One test for any number of argument sets and results.                   *)
(*                                                                         *)
(* In any environment, whatever the program, the timers and aborts do,     *)
(* iterations are started and stopped in order.  The argument: the program *)
(* joins the bus once, before anything was sent to it, so that remoteSetUp *)
(* is the first call and the only one of its kind (LinkBook).  Its answer  *)
(* starts the first iteration; every other one is started by the callback  *)
(* that reported the stop of the one before, or found it reported          *)
(* (StopBook).                                                             *)
(*                                                                         *)
(* What is recorded is what happened: a return code that the runner knows  *)
(* is that of a process that has exited (ExitBook), and the argument set   *)
(* an iteration is started with was recorded for it (ArgsBook).            *)
(*                                                                         *)
(* When nothing goes wrong, there is one call or one working thread at a   *)
(* time, and the session goes through five stages (Healthy): that gives    *)
(* the exit code, and with StopBook that the session does what             *)
(* TestLifecycle promises, in this environment and, less its end, in all.  *)
(*                                                                         *)
(* What is said about an iteration is filed under it or a later one, since *)
(* the program never begins more runs than it was told to start (RunBook). *)
(*                                                                         *)
(* What can end the test is in one place at a time when neither timers nor *)
(* aborts tell the runner to stop: a call, an answer, the worker or a      *)
(* signal (EndBook).  So the test is done once.                            *)
(***************************************************************************)
EXTENDS RemoteSession, FiniteSetTheorems, FunctionTheorems, SequenceTheorems,
        TLAPS

Expected == [method : Methods, live : BOOLEAN]

\* Nothing was sent to the program.
Untouched == pending = <<>> /\ iteration = 0 /\ ~remote

LinkBook ==
    /\ launched = "no" => process = "unborn"
    /\ process \in {"unborn", "starting"} => inbox = <<>> /\ Untouched
    /\ \A k \in DOMAIN inbox : inbox[k].type = "joined" => k = 1 /\ Untouched
    /\ \A k \in DOMAIN pending : pending[k].method = "remoteSetUp" =>
          k = 1 /\ (pending[k].live => iteration = 0 /\ args # 0)

\* While the test is stopping, the stop of its iteration was reported.
StopBook ==
    /\ stops[iteration] = IF stopping THEN 1 ELSE 0
    /\ EachIterationStopsOnce
    /\ TimerOnlyWhileRunning

\* A runner without a process had one that has exited, or gave it up; the
\* return code that it knows is that of the exited process.
ExitBook ==
    /\ launched = "no" => dones = 0
    /\ launched = "yes" => hasProcess \/ process = "exited" \/ gaveUp
    /\ returncode # NoCode => process = "exited" /\ returncode = exitCode
    /\ gaveUp => "undying" \in faults
    /\ NoOrphan

\* The arguments for the first iteration were recorded for it.
ArgsBook ==
    /\ iteration = 0 => args = 0 \/ iterArgs[1] = args
    /\ RecordedArgsRan

\* The call that is being served is the oldest one.
ServesCall ==
    main = "spawned" => process = "exited" \/ (process = "connected" /\ calls # <<>>)

RInv == TypeOK /\ LinkBook /\ ServesCall /\ StopBook /\ ExitBook /\ ArgsBook

-----------------------------------------------------------------------------
(* Messages.                                                               *)

LEMMA MessageTypes ==
    /\ Joined \in Messages /\ Left \in Messages /\ Done \in Messages
    /\ \A n \in Nat : Validate(n) \in Messages /\ Validate(n).type # "joined"
    /\ \A m \in Methods, ok \in BOOLEAN :
          Reply(m, ok) \in Messages /\ Reply(m, ok).type # "joined"
    /\ \A m \in Methods : Error(m) \in Messages /\ Error(m).type # "joined"
    /\ Left.type # "joined" /\ Done.type # "joined"
  <1>1. /\ Joined \in Messages /\ Left \in Messages /\ Done \in Messages
        /\ \A n \in Nat : Validate(n) \in Messages
        /\ \A m \in Methods, ok \in BOOLEAN : Reply(m, ok) \in Messages
        /\ \A m \in Methods : Error(m) \in Messages
    BY DEF Messages, Validate, Reply, Error
  <1>2. /\ \A n \in Nat : Validate(n).type # "joined"
        /\ \A m \in Methods, ok \in BOOLEAN : Reply(m, ok).type # "joined"
        /\ \A m \in Methods : Error(m).type # "joined"
        /\ Left.type # "joined" /\ Done.type # "joined"
    BY DEF Validate, Reply, Left, Done, Error
  <1> QED
    BY <1>1, <1>2

LEMMA ErrorsType ==
    ASSUME NEW ms \in Seq(Methods)
    PROVE  /\ Errors(ms) \in Seq(Messages)
           /\ Len(Errors(ms)) = Len(ms) /\ DOMAIN Errors(ms) = DOMAIN ms
           /\ \A k \in DOMAIN ms : Errors(ms)[k] = Error(ms[k]) /\ ms[k] \in Methods
           /\ \A k \in DOMAIN Errors(ms) : Errors(ms)[k].type # "joined"
           /\ ms = <<>> => Errors(ms) = <<>>
  <1>0. DOMAIN ms = 1..Len(ms) /\ Len(ms) \in Nat /\ \A k \in DOMAIN ms : ms[k] \in Methods
    BY LenProperties
  <1>1. Errors(ms) \in [1..Len(ms) -> Messages]
    BY <1>0, MessageTypes DEF Errors
  <1>2. Errors(ms) \in Seq(Messages)
    BY <1>0, <1>1, IsASeq
  <1>3. Len(Errors(ms)) = Len(ms)
    BY <1>0, <1>1, <1>2, LenProperties
  <1>4. /\ DOMAIN Errors(ms) = DOMAIN ms
        /\ \A k \in DOMAIN ms : Errors(ms)[k] = Error(ms[k])
        /\ \A k \in DOMAIN ms : Errors(ms)[k].type # "joined"
    BY <1>0, MessageTypes DEF Errors
  <1>5. ms = <<>> => Errors(ms) = <<>>
    BY <1>2, <1>3, EmptySeq
  <1> QED
    BY <1>0, <1>2, <1>3, <1>4, <1>5

LEMMA NoErrors == Errors(<<>>) = <<>>
  <1>1. <<>> \in Seq(Methods)
    OBVIOUS
  <1> QED
    BY <1>1, ErrorsType

\* What is appended to the inbox is no second "joined".
LEMMA LaterMessages ==
    ASSUME NEW box \in Seq(Messages), NEW more \in Seq(Messages),
           \A k \in DOMAIN more : more[k].type # "joined"
    PROVE  /\ box \o more \in Seq(Messages)
           /\ \A k \in DOMAIN (box \o more) : (box \o more)[k].type = "joined" =>
                 k \in DOMAIN box /\ box[k].type = "joined"
  <1>1. /\ box \o more \in Seq(Messages)
        /\ Len(box \o more) = Len(box) + Len(more)
        /\ \A k \in 1..(Len(box) + Len(more)) :
              (box \o more)[k] = IF k <= Len(box) THEN box[k] ELSE more[k - Len(box)]
    BY ConcatProperties
  <1>2. /\ Len(box) \in Nat /\ DOMAIN box = 1..Len(box)
        /\ Len(more) \in Nat /\ DOMAIN more = 1..Len(more)
        /\ DOMAIN (box \o more) = 1..(Len(box) + Len(more))
    BY <1>1, LenProperties
  <1>3. \A k \in 1..(Len(box) + Len(more)) :
           \/ k <= Len(box) /\ k \in DOMAIN box
           \/ k > Len(box) /\ k - Len(box) \in DOMAIN more
    BY <1>2
  <1> QED
    BY <1>1, <1>2, <1>3

LEMMA LaterMessage ==
    ASSUME NEW box \in Seq(Messages), NEW m \in Messages, m.type # "joined"
    PROVE  /\ Append(box, m) \in Seq(Messages)
           /\ \A k \in DOMAIN Append(box, m) : Append(box, m)[k].type = "joined" =>
                 k \in DOMAIN box /\ box[k].type = "joined"
  <1>1. /\ Append(box, m) \in Seq(Messages)
        /\ Len(Append(box, m)) = Len(box) + 1
        /\ \A k \in 1..Len(box) : Append(box, m)[k] = box[k]
        /\ Append(box, m)[Len(box) + 1] = m
    BY AppendProperties
  <1>2. /\ Len(box) \in Nat /\ DOMAIN box = 1..Len(box)
        /\ DOMAIN Append(box, m) = 1..(Len(box) + 1)
    BY <1>1, LenProperties
  <1>3. \A k \in 1..(Len(box) + 1) : k \in 1..Len(box) \/ k = Len(box) + 1
    BY <1>2
  <1> QED
    BY <1>1, <1>2, <1>3

\* What is behind the head.
LEMMA Rest ==
    ASSUME NEW S, NEW s \in Seq(S), s # <<>>
    PROVE  /\ Tail(s) \in Seq(S)
           /\ Head(s) \in S /\ Head(s) = s[1] /\ 1 \in DOMAIN s
           /\ \A k \in DOMAIN Tail(s) :
                 k + 1 \in DOMAIN s /\ k + 1 # 1 /\ Tail(s)[k] = s[k + 1]
  <1>1. /\ Head(s) \in S /\ Head(s) = s[1]
        /\ Tail(s) \in Seq(S)
        /\ Len(Tail(s)) = Len(s) - 1
        /\ \A k \in 1..Len(Tail(s)) : Tail(s)[k] = s[k + 1]
    BY HeadTailProperties
  <1>2. /\ Len(s) \in Nat /\ Len(s) >= 1 /\ DOMAIN s = 1..Len(s)
        /\ DOMAIN Tail(s) = 1..Len(Tail(s))
    BY <1>1, LenProperties, EmptySeq
  <1> QED
    BY <1>1, <1>2

-----------------------------------------------------------------------------
(* Callbacks.                                                              *)

\* The link after a callback.
LEMMA ExchangeKeeps ==
    ASSUME LinkTypes, NEW box \in Seq(Messages), NEW expected \in Seq(Expected),
           NEW ms \in Seq(Methods), Exchange(box, expected, ms)
    PROVE  /\ calls' \in Seq(Methods)
           /\ pending' \in Seq(Expected)
           /\ inbox' \in Seq(Messages)
           /\ \A k \in DOMAIN inbox' : inbox'[k].type = "joined" =>
                 k \in DOMAIN box /\ box[k].type = "joined"
           /\ \A k \in DOMAIN pending' :
                 \/ k \in DOMAIN expected /\ pending'[k] = expected[k]
                 \/ \E j \in DOMAIN ms : k = Len(expected) + j /\ pending'[k].method = ms[j]
           /\ ms = <<>> => pending' = expected
           /\ ms = <<>> /\ box = <<>> => inbox' = <<>>
           /\ calls # <<>> => calls' # <<>>
  <1> DEFINE new == [k \in DOMAIN ms |-> [method |-> ms[k], live |-> TRUE]]
  <1>1. /\ Len(ms) \in Nat /\ DOMAIN ms = 1..Len(ms)
        /\ \A k \in DOMAIN ms : ms[k] \in Methods
        /\ ms = <<>> => Len(ms) = 0
    BY LenProperties, ElementOfSeq, EmptySeq
  <1>2. new \in [1..Len(ms) -> Expected] /\ \A k \in DOMAIN ms : new[k].method = ms[k]
    BY <1>1 DEF Expected
  <1>3. new \in Seq(Expected) /\ Len(new) = Len(ms)
    BY <1>1, <1>2, IsASeq, LenProperties
  <1>4. pending' = expected \o new
    BY DEF Exchange
  <1> HIDE DEF new
  <1>5. /\ pending' \in Seq(Expected)
        /\ \A k \in DOMAIN pending' :
              \/ k \in DOMAIN expected /\ pending'[k] = expected[k]
              \/ \E j \in DOMAIN ms : k = Len(expected) + j /\ pending'[k].method = ms[j]
    <2>1. /\ expected \o new \in Seq(Expected)
          /\ Len(expected \o new) = Len(expected) + Len(ms)
          /\ \A k \in 1..(Len(expected) + Len(ms)) :
                (expected \o new)[k] =
                    IF k <= Len(expected) THEN expected[k] ELSE new[k - Len(expected)]
      <3>1. /\ expected \o new \in Seq(Expected)
            /\ Len(expected \o new) = Len(expected) + Len(new)
            /\ \A k \in 1..(Len(expected) + Len(new)) :
                  (expected \o new)[k] =
                      IF k <= Len(expected) THEN expected[k] ELSE new[k - Len(expected)]
        BY <1>3, ConcatProperties
      <3> QED
        BY <3>1, <1>3
    <2>2. /\ Len(expected) \in Nat /\ DOMAIN expected = 1..Len(expected)
          /\ DOMAIN (expected \o new) = 1..(Len(expected) + Len(ms))
      BY <2>1, LenProperties
    <2>3. ASSUME NEW k \in 1..(Len(expected) + Len(ms))
          PROVE  \/ k \in DOMAIN expected /\ (expected \o new)[k] = expected[k]
                 \/ \E j \in DOMAIN ms :
                       k = Len(expected) + j /\ (expected \o new)[k].method = ms[j]
      <3>1. CASE k <= Len(expected)
        BY <3>1, <2>1, <2>2
      <3>2. CASE k > Len(expected)
        <4>1. k - Len(expected) \in DOMAIN ms /\ k = Len(expected) + (k - Len(expected))
          BY <3>2, <2>2, <1>1
        <4>2. (expected \o new)[k] = new[k - Len(expected)]
          BY <3>2, <2>1, <2>2
        <4> QED
          BY <4>1, <4>2, <1>2
      <3> QED
        BY <3>1, <3>2, <2>2
    <2> QED
      BY <1>4, <2>1, <2>2, <2>3
  <1>6. ms = <<>> => pending' = expected
    BY <1>1, <1>3, <1>4, EmptySeq, ConcatEmptySeq
  <1>7. \/ inbox' = box /\ calls' = calls \o ms
        \/ inbox' = box \o Errors(ms) /\ calls' = calls
    BY DEF Exchange
  <1>8. calls' \in Seq(Methods)
    BY <1>7, ConcatProperties DEF LinkTypes
  <1>9. /\ Errors(ms) \in Seq(Messages)
        /\ \A k \in DOMAIN Errors(ms) : Errors(ms)[k].type # "joined"
        /\ ms = <<>> => Errors(ms) = <<>>
    BY <1>1, ErrorsType, LenProperties
  <1>10. /\ inbox' \in Seq(Messages)
         /\ \A k \in DOMAIN inbox' : inbox'[k].type = "joined" =>
               k \in DOMAIN box /\ box[k].type = "joined"
    <2>1. CASE inbox' = box
      BY <2>1
    <2>2. CASE inbox' = box \o Errors(ms)
      BY <2>2, <1>9, LaterMessages
    <2> QED
      BY <1>7, <2>1, <2>2
  <1>11. ms = <<>> /\ box = <<>> => inbox' = <<>>
    BY <1>7, <1>9, ConcatEmptySeq
  <1>12. calls # <<>> => calls' # <<>>
    BY <1>7, ConcatEqualIffEmpty DEF LinkTypes
  <1> QED
    BY <1>5, <1>6, <1>8, <1>10, <1>11, <1>12

\* The methods that callbacks call later than remoteSetUp.
Calls == {<<>>, <<"remoteStart">>, <<"remoteStop">>, <<"remoteTearDown">>}

LEMMA CallsType ==
    ASSUME NEW ms \in Calls
    PROVE  ms \in Seq(Methods) /\ \A j \in DOMAIN ms : ms[j] # "remoteSetUp"
  <1>1. CASE ms = <<>>
    BY <1>1
  <1>2. ASSUME NEW m \in {"remoteStart", "remoteStop", "remoteTearDown"}, ms = <<m>>
        PROVE  ms \in Seq(Methods) /\ \A j \in DOMAIN ms : ms[j] # "remoteSetUp"
    BY <1>2 DEF Methods
  <1> QED
    BY <1>1, <1>2 DEF Calls

LEMMA IfRemoteType ==
    ASSUME NEW m \in {"remoteStart", "remoteStop", "remoteTearDown"}
    PROVE  IfRemote(<<m>>) \in Calls /\ (IfRemote(<<m>>) # <<>> => remote)
BY DEF IfRemote, Calls

\* A callback that was invoked for the first message, and took the answer to
\* the oldest call if it moved to the next iteration.
LEMMA HeadTaken ==
    ASSUME RInv, inbox # <<>>, process' = process, launched' = launched,
           NEW expected, NEW ms \in Calls, Exchange(Tail(inbox), expected, ms),
           \/ expected = pending /\ UNCHANGED <<iteration, args>>
           \/ pending # <<>> /\ expected = Tail(pending),
           main' = main
    PROVE  /\ ServesCall'
           /\ calls' \in Seq(Methods)
           /\ pending' \in Seq(Expected)
           /\ inbox' \in Seq(Messages)
           /\ LinkBook'
  <1>1. /\ LinkTypes /\ LinkBook
        /\ inbox \in Seq(Messages) /\ pending \in Seq(Expected)
    BY DEF RInv, TypeOK, LinkTypes, RunnerTypes, Expected
  <1>2. /\ Tail(inbox) \in Seq(Messages)
        /\ \A k \in DOMAIN Tail(inbox) : Tail(inbox)[k].type # "joined"
    BY <1>1, Rest DEF LinkBook
  <1>3. /\ expected \in Seq(Expected)
        /\ \A k \in DOMAIN expected : expected[k].method = "remoteSetUp" =>
              /\ expected = pending
              /\ k = 1
              /\ expected[k].live => iteration' = 0 /\ args' # 0
    <2>1. CASE expected = pending /\ UNCHANGED <<iteration, args>>
      BY <2>1, <1>1 DEF LinkBook
    <2>2. CASE pending # <<>> /\ expected = Tail(pending)
      BY <2>2, <1>1, Rest DEF LinkBook
    <2> QED
      BY <2>1, <2>2
  <1>4. ms \in Seq(Methods) /\ \A j \in DOMAIN ms : ms[j] # "remoteSetUp"
    BY CallsType
  <1>5. /\ calls # <<>> => calls' # <<>>
        /\ calls' \in Seq(Methods)
        /\ pending' \in Seq(Expected)
        /\ inbox' \in Seq(Messages)
        /\ \A k \in DOMAIN inbox' : inbox'[k].type # "joined"
        /\ \A k \in DOMAIN pending' : pending'[k].method = "remoteSetUp" =>
              k \in DOMAIN expected /\ pending'[k] = expected[k]
    <2>0. /\ LinkTypes
          /\ Tail(inbox) \in Seq(Messages) /\ expected \in Seq(Expected) /\ ms \in Seq(Methods)
      BY <1>1, <1>2, <1>3, <1>4
    <2>1. \A k \in DOMAIN pending' :
              \/ k \in DOMAIN expected /\ pending'[k] = expected[k]
              \/ \E j \in DOMAIN ms : k = Len(expected) + j /\ pending'[k].method = ms[j]
      BY <2>0, ExchangeKeeps
    <2>2. /\ calls # <<>> => calls' # <<>>
          /\ calls' \in Seq(Methods)
          /\ pending' \in Seq(Expected)
          /\ inbox' \in Seq(Messages)
          /\ \A k \in DOMAIN inbox' : inbox'[k].type = "joined" =>
                k \in DOMAIN Tail(inbox) /\ Tail(inbox)[k].type = "joined"
      BY <2>0, ExchangeKeeps
    <2> QED
      BY <1>2, <1>4, <2>1, <2>2
  <1>6. process' \notin {"unborn", "starting"} /\ (launched' = "no" => process' = "unborn")
    BY <1>1 DEF LinkBook
  <1> QED
    BY <1>3, <1>5, <1>6 DEF LinkBook, ServesCall, RInv

\* A callback of a timer, or stop() from outside.
LEMMA InboxKept ==
    ASSUME RInv, process' = process, launched' = launched,
           NEW expected \in Seq(Expected), NEW ms \in Calls, Exchange(inbox, expected, ms),
           ms # <<>> => remote,
           DOMAIN expected = DOMAIN pending,
           \A k \in DOMAIN pending : /\ expected[k].method = pending[k].method
                                     /\ expected[k].live => pending[k].live,
           UNCHANGED <<iteration, remote, args, main>>
    PROVE  /\ ServesCall'
           /\ calls' \in Seq(Methods)
           /\ pending' \in Seq(Expected)
           /\ inbox' \in Seq(Messages)
           /\ LinkBook'
  <1>1. /\ LinkTypes /\ LinkBook
        /\ inbox \in Seq(Messages) /\ pending \in Seq(Expected)
    BY DEF RInv, TypeOK, LinkTypes, Expected
  <1>2. ms \in Seq(Methods) /\ \A j \in DOMAIN ms : ms[j] # "remoteSetUp"
    BY CallsType
  <1>3. /\ calls # <<>> => calls' # <<>>
        /\ calls' \in Seq(Methods)
        /\ pending' \in Seq(Expected)
        /\ inbox' \in Seq(Messages)
        /\ \A k \in DOMAIN inbox' : inbox'[k].type = "joined" =>
              k \in DOMAIN inbox /\ inbox[k].type = "joined"
        /\ \A k \in DOMAIN pending' : pending'[k].method = "remoteSetUp" =>
              k \in DOMAIN expected /\ pending'[k] = expected[k]
        /\ ms = <<>> => pending' = expected
        /\ ms = <<>> /\ inbox = <<>> => inbox' = <<>>
    BY <1>1, <1>2, ExchangeKeeps
  <1>4. pending = <<>> => expected = <<>>
    BY <1>1, LenProperties, EmptySeq
  <1>5. Untouched => Untouched' /\ ms = <<>>
    BY <1>3, <1>4 DEF Untouched
  <1> QED
    BY <1>1, <1>3, <1>5 DEF LinkBook, ServesCall, RInv

-----------------------------------------------------------------------------
(* The program.                                                            *)

LEMMA LeaveKeeps ==
    ASSUME RInv, NEW code \in {0, 1}, Leave(code), process \in {"starting", "connected"},
           UNCHANGED <<faults, runnerVars>>
    PROVE  LinkTypes' /\ LinkBook' /\ process' = "exited"
  <1>1. /\ LinkTypes /\ LinkBook
        /\ calls \in Seq(Methods) /\ inbox \in Seq(Messages)
    BY DEF RInv, TypeOK, LinkTypes
  <1>2. /\ Errors(calls) \in Seq(Messages)
        /\ \A k \in DOMAIN Errors(calls) : Errors(calls)[k].type # "joined"
    BY <1>1, ErrorsType, LenProperties
  <1>3. inbox' = inbox \/ inbox' = (inbox \o <<Left>>) \o Errors(calls)
    <2>1. inbox \o <<Left>> \o Errors(calls) = (inbox \o <<Left>>) \o Errors(calls)
      OBVIOUS
    <2> QED
      BY <2>1 DEF Leave
  <1>4. /\ inbox' \in Seq(Messages)
        /\ \A k \in DOMAIN inbox' : inbox'[k].type = "joined" =>
              k \in DOMAIN inbox /\ inbox[k].type = "joined"
    <2>1. CASE inbox' = inbox
      BY <2>1, <1>1
    <2>2. CASE inbox' = (inbox \o <<Left>>) \o Errors(calls)
      <3>1. /\ <<Left>> \in Seq(Messages)
            /\ \A k \in DOMAIN <<Left>> : <<Left>>[k].type # "joined"
        BY MessageTypes
      <3>2. /\ inbox \o <<Left>> \in Seq(Messages)
            /\ \A k \in DOMAIN (inbox \o <<Left>>) : (inbox \o <<Left>>)[k].type = "joined" =>
                  k \in DOMAIN inbox /\ inbox[k].type = "joined"
        BY <1>1, <3>1, LaterMessages
      <3> HIDE <3>1
      <3> DEFINE box == inbox \o <<Left>>
      <3>3. box \in Seq(Messages)
        BY <3>2
      <3> HIDE DEF box
      <3>4. /\ box \o Errors(calls) \in Seq(Messages)
            /\ \A k \in DOMAIN (box \o Errors(calls)) :
                  (box \o Errors(calls))[k].type = "joined" =>
                      k \in DOMAIN box /\ box[k].type = "joined"
        BY <3>3, <1>2, LaterMessages
      <3> QED
        BY <2>2, <3>2, <3>4 DEF box
    <2> QED
      BY <1>3, <2>1, <2>2
  <1>5. /\ process' = "exited" /\ exitCode' \in {0, 1} /\ calls' = <<>>
        /\ UNCHANGED <<pending, launched, iteration, remote, args, faults>>
    BY DEF Leave, runnerVars, argVars
  <1>6. launched # "no"
    BY <1>1 DEF LinkBook
  <1>7. LinkBook'
    BY <1>1, <1>4, <1>5, <1>6 DEF LinkBook, Untouched
  <1>8. LinkTypes'
    BY <1>1, <1>4, <1>5 DEF LinkTypes
  <1> QED
    BY <1>5, <1>7, <1>8

\* What a step of the program that stays does to the link.
LEMMA ProgramOnLink ==
    ASSUME RInv, RemoteNext
    PROVE  /\ RemoteTypes'
           /\ \/ /\ process = "starting" /\ process' = "connected"
                 /\ inbox' = Append(inbox, Joined)
                 /\ UNCHANGED <<exitCode, calls, pending>>
              \/ /\ process = "connected"
                 /\ UNCHANGED <<process, exitCode, pending>>
                 /\ calls' = calls \/ (calls # <<>> /\ calls' = Tail(calls))
                 /\ \/ inbox' = inbox
                    \/ \E m \in Messages : m.type # "joined" /\ inbox' = Append(inbox, m)
              \/ /\ process \in {"starting", "connected"}
                 /\ \E code \in {0, 1} : Leave(code)
  <1> USE DEF RInv, TypeOK, RemoteTypes
  <1>1. CASE Connect
    BY <1>1 DEF Connect, Emit, remoteVars
  <1>2. CASE HandleSetUp \/ HandleStartRefused \/ HandleStop \/ HandleTearDown
    <2>1. /\ runlevel' \in {"idle", "setup", "started"}
          /\ run' \in Nat
          /\ exiting' \in BOOLEAN
          /\ UNCHANGED <<main, thread, worker, workerRun, items>>
      <3>1. CASE HandleSetUp
        <4>1. /\ \/ UNCHANGED <<runlevel, run>>
                 \/ runlevel' = "setup" /\ run' = 1
              /\ UNCHANGED <<exiting, main, thread, worker, workerRun, items>>
          BY <3>1, Zenon DEF HandleSetUp
        <4> QED
          BY <4>1
      <3>2. CASE HandleStartRefused
        BY <3>2 DEF HandleStartRefused
      <3>3. CASE HandleStop
        BY <3>3 DEF HandleStop
      <3>4. CASE HandleTearDown
        BY <3>4 DEF HandleTearDown
      <3> QED
        BY <1>2, <3>1, <3>2, <3>3, <3>4
    <2>3. RemoteTypes'
      BY <2>1
    <2>2. /\ process = "connected"
          /\ UNCHANGED <<process, exitCode, pending>>
          /\ calls # <<>>
          /\ \E ok \in BOOLEAN : Answer(ok)
      BY <1>2 DEF HandleSetUp, HandleStartRefused, HandleStop, HandleTearDown, Serving
    <2>4. Head(calls) \in Methods
      BY <2>2, Rest DEF LinkTypes
    <2> QED
      BY <2>2, <2>3, <2>4, MessageTypes DEF Answer
  <1>3. CASE HandleStart
    <2>1. 0 \in 0..MaxItems
      BY MaxItemsAssumption DEF MaxItemsAssumption
    <2> QED
      BY <1>3, <2>1 DEF HandleStart, Serving
  <1>4. CASE StartReturns
    <2>1. RemoteTypes'
      BY <1>4 DEF StartReturns
    <2>2. calls # <<>>
      BY <1>4 DEF StartReturns, ServesCall
    <2>3. Head(calls) \in Methods
      BY <2>2, Rest DEF LinkTypes
    <2> QED
      BY <1>4, <2>1, <2>2, <2>3, MessageTypes DEF StartReturns, Answer
  <1>5. CASE Exit
    BY <1>5 DEF Exit, remoteVars
  <1>6. CASE WorkerValidates
    <2>1. items + 1 \in 0..MaxItems
      BY <1>6, MaxItemsAssumption DEF WorkerValidates, MaxItemsAssumption
    <2> QED
      BY <1>6, <2>1, MessageTypes DEF WorkerValidates, WorkerRuns, Emit
  <1>7. CASE WorkerDone \/ WorkerReturns \/ WorkerHangs
    BY <1>7, MessageTypes DEF WorkerDone, WorkerReturns, WorkerHangs, WorkerRuns, Emit
  <1>8. CASE Crash
    BY <1>8 DEF Crash, remoteVars
  <1> QED
    BY <1>1, <1>2, <1>3, <1>4, <1>5, <1>6, <1>7, <1>8 DEF RemoteNext, RemoteStep, WorkerStep

\* Whatever happens elsewhere.
LEMMA RunnerStays ==
    ASSUME RInv, UNCHANGED runnerVars
    PROVE  /\ RunnerTypes'
           /\ RunnerFlags'
           /\ StopBook'
           /\ ArgsBook'
           /\ UNCHANGED <<launched, hasProcess, iteration, remote, args, dones,
                          returncode, normalExit, gaveUp>>
BY DEF RInv, TypeOK, RunnerTypes, RunnerFlags, StopBook, EachIterationStopsOnce,
       TimerOnlyWhileRunning, ArgsBook, RecordedArgsRan,
       runnerVars, argVars, timerVars, historyVars, startVars

\* Steps of the program change nothing in the runner.
LEMMA ProgramKeepsRInv ==
    ASSUME RInv, RemoteNext, UNCHANGED <<faults, runnerVars>>
    PROVE  RInv'
  <1> USE DEF RInv
  <1>1. /\ RunnerTypes'
        /\ RunnerFlags'
        /\ StopBook'
        /\ ArgsBook'
        /\ UNCHANGED <<launched, hasProcess, iteration, remote, args, dones,
                       returncode, normalExit, gaveUp>>
    BY RunnerStays
  <1>2. /\ inbox \in Seq(Messages) /\ pending \in Seq(Expected) /\ calls \in Seq(Methods)
        /\ faults \in Environments /\ exitCode \in {0, 1}
        /\ launched # "no" \/ process = "unborn"
    BY DEF TypeOK, LinkTypes, LinkBook, Expected
  <1>3. RemoteTypes'
    BY ProgramOnLink
  <1>4. ServesCall'
    <2>1. CASE Connect \/ Exit \/ Crash
      BY <2>1 DEF Connect, Exit, Crash, Leave, ServesCall, remoteVars
    <2>2. CASE HandleSetUp \/ HandleStartRefused \/ HandleStop \/ HandleTearDown \/ StartReturns
      BY <2>2 DEF HandleSetUp, HandleStartRefused, HandleStop, HandleTearDown, StartReturns,
                  Serving, ServesCall
    <2>3. CASE HandleStart
      BY <2>3 DEF HandleStart, Serving, ServesCall
    <2>4. CASE WorkerStep \/ WorkerHangs
      BY <2>4 DEF WorkerStep, WorkerHangs, WorkerValidates, WorkerDone, WorkerReturns,
                  WorkerRuns, ServesCall
    <2> QED
      BY <2>1, <2>2, <2>3, <2>4 DEF RemoteNext, RemoteStep
  <1>5. LinkTypes' /\ LinkBook' /\ ExitBook'
    <2>1. CASE /\ process = "starting" /\ process' = "connected"
               /\ inbox' = Append(inbox, Joined)
               /\ UNCHANGED <<exitCode, calls, pending>>
      <3>1. inbox = <<>> /\ Untouched /\ launched # "no"
        BY <2>1, <1>2 DEF LinkBook
      <3>2. inbox' \in Seq(Messages) /\ DOMAIN inbox' = {1}
        BY <2>1, <3>1, MessageTypes
      <3>3. Untouched'
        BY <1>1, <2>1, <3>1 DEF Untouched
      <3>4. LinkBook'
        BY <1>1, <2>1, <3>1, <3>2, <3>3 DEF LinkBook, Untouched
      <3>5. LinkTypes'
        BY <1>2, <2>1, <3>2 DEF LinkTypes, Expected
      <3>6. ExitBook'
        BY <1>1, <2>1, <3>1 DEF ExitBook, NoOrphan
      <3> QED
        BY <3>4, <3>5, <3>6
    <2>2. CASE /\ process = "connected"
               /\ UNCHANGED <<process, exitCode, pending>>
               /\ calls' = calls \/ (calls # <<>> /\ calls' = Tail(calls))
               /\ \/ inbox' = inbox
                  \/ \E m \in Messages : m.type # "joined" /\ inbox' = Append(inbox, m)
      <3>1. /\ inbox' \in Seq(Messages)
            /\ \A k \in DOMAIN inbox' : inbox'[k].type = "joined" =>
                  k \in DOMAIN inbox /\ inbox[k].type = "joined"
        BY <2>2, <1>2, LaterMessage
      <3>2. calls' \in Seq(Methods)
        BY <2>2, <1>2, Rest
      <3>3. Untouched => Untouched'
        BY <1>1, <2>2 DEF Untouched
      <3>4. LinkBook'
        BY <1>1, <2>2, <3>1, <3>3 DEF LinkBook
      <3>5. LinkTypes'
        BY <1>2, <2>2, <3>1, <3>2 DEF LinkTypes, Expected
      <3>6. ExitBook'
        BY <1>1, <2>2 DEF ExitBook, NoOrphan
      <3> QED
        BY <3>4, <3>5, <3>6
    <2>3. CASE /\ process \in {"starting", "connected"}
               /\ \E code \in {0, 1} : Leave(code)
      <3>1. LinkTypes' /\ LinkBook' /\ process' = "exited"
        BY <2>3, LeaveKeeps
      <3>2. process # "exited"
        BY <2>3
      <3>3. ExitBook'
        BY <1>1, <3>1, <3>2 DEF ExitBook, NoOrphan
      <3> QED
        BY <3>1, <3>3
    <2> QED
      BY <2>1, <2>2, <2>3, ProgramOnLink
  <1> QED
    BY <1>1, <1>3, <1>4, <1>5 DEF TypeOK

\* kill_process(), or the end of a program that it has given up.
LEMMA KillKeepsRInv ==
    ASSUME RInv, Kill \/ DiesLate, UNCHANGED <<faults, remoteVars, runnerVars>>
    PROVE  RInv'
  <1> USE DEF RInv
  <1>1. /\ RunnerTypes'
        /\ RunnerFlags'
        /\ StopBook'
        /\ ArgsBook'
        /\ UNCHANGED <<launched, hasProcess, dones, returncode, normalExit, gaveUp>>
    BY RunnerStays
  <1>2. RemoteTypes'
    BY DEF TypeOK, RemoteTypes, remoteVars
  <1>3. Leave(1) /\ process \in {"starting", "connected"}
    BY DEF Kill, DiesLate
  <1>4. LinkTypes' /\ LinkBook' /\ process' = "exited"
    BY <1>3, LeaveKeeps
  <1>5. ServesCall' /\ ExitBook'
    BY <1>1, <1>3, <1>4 DEF ServesCall, ExitBook, NoOrphan
  <1> QED
    BY <1>1, <1>2, <1>4, <1>5 DEF TypeOK

-----------------------------------------------------------------------------
(* The variables of the runner.                                            *)

\* The answer to remoteSetUp starts the first iteration.
LEMMA FirstAnswer ==
    ASSUME RInv, Answers("remoteSetUp", "reply")
    PROVE  iteration = 0 /\ args # 0 /\ consumed > 0
  <1>1. pending \in Seq(Expected) /\ pending # <<>> /\ LinkBook
    BY DEF RInv, TypeOK, LinkTypes, Expected, Answers
  <1>2. 1 \in DOMAIN pending /\ pending[1] = [method |-> "remoteSetUp", live |-> TRUE]
    BY <1>1, Rest DEF Answers
  <1>3. pending[1].method = "remoteSetUp" /\ pending[1].live
    BY <1>2
  <1>4. iteration = 0 /\ args # 0
    BY <1>1, <1>2, <1>3 DEF LinkBook
  <1>5. args \in 0..consumed /\ consumed \in Nat
    BY NArgsAssumption DEF RInv, TypeOK, RunnerTypes, NArgsAssumption
  <1> QED
    BY <1>4, <1>5

LEMMA ArgumentsTaken ==
    ASSUME RunnerTypes, PrepareArguments
    PROVE  /\ consumed' \in 0..NArgs
           /\ consumed' >= consumed
           /\ args' \in 0..consumed'
           /\ consumed < NArgs => consumed' = consumed + 1
           /\ iterArgs' \in [1..NArgs -> 0..NArgs]
           /\ \A i \in 1..iteration : iterArgs'[i] = iterArgs[i]
  <1>1. /\ NArgs \in Nat /\ consumed \in 0..NArgs /\ iteration \in Nat
        /\ iterArgs \in [1..NArgs -> 0..NArgs]
    BY NArgsAssumption DEF NArgsAssumption, RunnerTypes
  <1>2. CASE consumed < NArgs
    <2>1. /\ consumed' = consumed + 1 /\ args' = consumed + 1
          /\ iterArgs' = [iterArgs EXCEPT ![iteration + 1] = consumed + 1]
      BY <1>2 DEF PrepareArguments
    <2>2. consumed + 1 \in 0..NArgs
      BY <1>1, <1>2
    <2>3. \A i \in 1..iteration : i # iteration + 1
      BY <1>1
    <2>4. iterArgs' \in [1..NArgs -> 0..NArgs]
      BY <1>1, <2>1, <2>2
    <2>5. \A i \in 1..iteration : iterArgs'[i] = iterArgs[i]
      BY <1>1, <2>1, <2>3
    <2> QED
      BY <1>1, <1>2, <2>1, <2>2, <2>4, <2>5
  <1>3. CASE ~(consumed < NArgs)
    BY <1>1, <1>3 DEF PrepareArguments
  <1> QED
    BY <1>2, <1>3

\* Which stops are reported.
LEMMA StopTypes ==
    ASSUME RunnerTypes, StopOnce
    PROVE  /\ stops' \in [Iterations -> Nat]
           /\ stopping => stops' = stops
           /\ ~stopping => stops'[iteration] = stops[iteration] + 1
           /\ \A i \in Iterations : i # iteration => stops'[i] = stops[i]
  <1>1. /\ stops \in [Iterations -> Nat] /\ iteration \in Iterations
        /\ stops[iteration] \in Nat
    BY NArgsAssumption DEF RunnerTypes, Iterations, NArgsAssumption
  <1>2. CASE stopping
    BY <1>1, <1>2 DEF StopOnce
  <1>3. CASE ~stopping
    <2>1. stops' = [stops EXCEPT ![iteration] = stops[iteration] + 1]
      BY <1>3 DEF StopOnce
    <2> QED
      BY <1>1, <1>3, <2>1
  <1> QED
    BY <1>2, <1>3

\* The end of tearDown() leaves no timer.
LEMMA FinishTypes ==
    ASSUME RunnerTypes, NEW code, FinishTearDown(code)
    PROVE  /\ normalExit' \in {"unset", "yes", "no"}
           /\ asyncTimer' = FALSE /\ testTimer' = FALSE
           /\ dones' \in Nat /\ dones' > 0
  <1>1. dones \in Nat /\ normalExit \in {"unset", "yes", "no"}
    BY DEF RunnerTypes
  <1>2. /\ asyncTimer' = FALSE /\ testTimer' = FALSE
        /\ dones' = dones + 1
        /\ normalExit' = IF normalExit = "unset"
                          THEN IF code = 0 THEN "yes" ELSE "no"
                          ELSE normalExit
    BY DEF FinishTearDown
  <1> QED
    BY <1>1, <1>2

LEMMA TearDownTypes ==
    ASSUME RunnerTypes, NEW box, NEW expected, NEW timer, TearDown(box, expected, timer)
    PROVE  /\ UNCHANGED <<hasProcess, returncode>>
           /\ testTimer' = timer \/ testTimer' = FALSE
           /\ normalExit' \in {"unset", "yes", "no"}
           /\ dones' \in Nat
           /\ hasProcess => dones' = dones
  <1>1. CASE hasProcess
    BY <1>1 DEF TearDown, RunnerTypes
  <1>2. CASE ~hasProcess
    <2>1. FinishTearDown(returncode) /\ UNCHANGED <<hasProcess, returncode>>
      BY <1>2 DEF TearDown
    <2> QED
      BY <1>2, <2>1, FinishTypes
  <1> QED
    BY <1>1, <1>2

LEMMA TearDownFlags ==
    ASSUME RunnerFlags, NEW box, NEW expected, NEW timer \in BOOLEAN,
           TearDown(box, expected, timer), UNCHANGED <<remote, gaveUp, leaked>>,
           stopping' \in BOOLEAN
    PROVE  RunnerFlags'
BY Zenon DEF TearDown, FinishTearDown, RunnerFlags

\* Only start() may leak a timer, and only kill_process() gives up.
LEMMA LeakedStays ==
    ASSUME \/ Run \/ RunFails \/ NewRemoteTest \/ NewRemoteTestLate \/ RemovedRemoteTest
           \/ StartReply \/ IgnoredReply \/ RemoteDone \/ RemoteValidate
           \/ AsyncSetupTimeout \/ TestTimeout \/ PollSubProcess \/ AbortTest
    PROVE  UNCHANGED <<leaked, gaveUp>>
BY DEF Run, RunFails, NewRemoteTest, NewRemoteTestLate, RemovedRemoteTest, StartReply,
       IgnoredReply, RemoteDone, RemoteValidate, AsyncSetupTimeout, TestTimeout,
       PollSubProcess, AbortTest, Unchanged, historyVars, startVars

LEMMA RunnerKeepsFlags ==
    ASSUME RInv, RunnerNext
    PROVE  RunnerFlags'
  <1>0. RunnerFlags
    BY DEF RInv, TypeOK
  <1>1. CASE Run \/ RunFails
    <2>1. UNCHANGED <<leaked, gaveUp>>
      BY <1>1, LeakedStays
    <2> QED
      BY <1>0, <1>1, <2>1, Zenon DEF Run, RunFails, RunnerFlags, timerVars
  <1>2. CASE NewRemoteTest \/ NewRemoteTestLate \/ RemovedRemoteTest \/ StartReply
             \/ IgnoredReply \/ RemoteDone \/ RemoteValidate
    <2>1. UNCHANGED <<leaked, gaveUp>>
      BY <1>2, LeakedStays
    <2>2. UNCHANGED <<busy, hasProcess, listening, stopping, asyncTimer, testTimer, pollTimer>>
      BY <1>2
      DEF NewRemoteTest, NewRemoteTestLate, RemovedRemoteTest, StartReply, IgnoredReply,
          RemoteDone, RemoteValidate, timerVars
    <2>3. remote' \in BOOLEAN
      BY <1>0, <1>2, Zenon
      DEF NewRemoteTest, NewRemoteTestLate, RemovedRemoteTest, StartReply, IgnoredReply,
          RemoteDone, RemoteValidate, RunnerFlags
    <2> QED
      BY <1>0, <2>1, <2>2, <2>3, Zenon DEF RunnerFlags
  <1>3. CASE AsyncSetupTimeout \/ TestTimeout \/ PollSubProcess \/ AbortTest
    <2>1. UNCHANGED <<leaked, gaveUp>>
      BY <1>3, LeakedStays
    <2> QED
      BY <1>0, <1>3, <2>1, Zenon
      DEF AsyncSetupTimeout, TestTimeout, PollSubProcess, AbortTest, RunnerFlags, timerVars
  <1>4. CASE KillEnds \/ KillGivesUp
    BY <1>0, <1>4, Zenon
    DEF KillEnds, KillGivesUp, AfterKill, FinishTearDown, RunnerFlags, startVars
  <1>5. CASE SetUpReply \/ StopReplyNext
    <2>1. (testTimer /\ stopping) \in BOOLEAN
      OBVIOUS
    <2> QED
      BY <1>0, <1>5, <2>1, Zenon
      DEF SetUpReply, StopReplyNext, Start, RunnerFlags, Unchanged
  <1>6. CASE FatalReply
    BY <1>0, <1>6, TearDownFlags, Zenon DEF FatalReply, RunnerFlags, Unchanged, startVars
  <1>7. CASE ReplyTimeout
    <2>1. /\ \/ \E box, expected : TearDown(box, expected, testTimer)
             \/ UNCHANGED <<busy, hasProcess, listening, timerVars>>
          /\ UNCHANGED <<remote, stopping, gaveUp, leaked>>
      BY <1>7, Zenon DEF ReplyTimeout, Unchanged, startVars
    <2> QED
      BY <1>0, <2>1, TearDownFlags, Zenon DEF RunnerFlags, timerVars
  <1>8. CASE StopReplyLast
    <2>1. (testTimer /\ stopping) \in BOOLEAN
      OBVIOUS
    <2> QED
      BY <1>0, <1>8, <2>1, TearDownFlags, Zenon
      DEF StopReplyLast, RunnerFlags, Unchanged, startVars
  <1> QED
    BY <1>1, <1>2, <1>3, <1>4, <1>5, <1>6, <1>7, <1>8 DEF RunnerNext, RunnerDispatch

LEMMA RunnerKeepsTypes ==
    ASSUME RInv, RunnerNext
    PROVE  RunnerTypes' /\ consumed' >= consumed
  <1>0. /\ RunnerTypes /\ consumed \in Nat
        /\ exitCode \in {0, 1}
    BY NArgsAssumption DEF RInv, TypeOK, RunnerTypes, LinkTypes, NArgsAssumption
  <1>1. CASE Run \/ RunFails
    <2>1. PrepareArguments /\ iteration' = iteration /\ iteration = 0
      BY <1>1 DEF Run, RunFails, RInv, LinkBook, Untouched
    <2>2. /\ launched' \in {"no", "yes", "failed"}
          /\ UNCHANGED <<returncode, normalExit, stops, dones, aborts, ran>>
      BY <1>1 DEF Run, RunFails, historyVars, startVars
    <2>3. /\ consumed' \in 0..NArgs /\ consumed' >= consumed /\ args' \in 0..consumed'
          /\ iterArgs' \in [1..NArgs -> 0..NArgs]
      BY <1>0, <2>1, ArgumentsTaken
    <2>4. iteration' \in 0..consumed'
      BY <2>1, <2>3, <1>0
    <2> QED
      BY <1>0, <2>2, <2>3, <2>4 DEF RunnerTypes
  <1>2. CASE NewRemoteTest \/ NewRemoteTestLate \/ RemovedRemoteTest \/ StartReply
             \/ IgnoredReply \/ RemoteDone \/ RemoteValidate \/ AsyncSetupTimeout \/ TestTimeout
    <2>1. UNCHANGED <<launched, returncode, argVars, iteration, normalExit, stops, dones, aborts,
                      ran>>
      BY <1>2
      DEF NewRemoteTest, NewRemoteTestLate, RemovedRemoteTest, StartReply, IgnoredReply,
          RemoteDone, RemoteValidate, AsyncSetupTimeout, TestTimeout, Unchanged, historyVars,
          startVars
    <2> QED
      BY <1>0, <2>1 DEF RunnerTypes, argVars
  <1>3. CASE PollSubProcess \/ AbortTest
    <2>1. /\ returncode' = returncode \/ returncode' = exitCode
          /\ aborts' = aborts \/ (aborts < MaxAborts /\ aborts' = aborts + 1)
          /\ UNCHANGED <<launched, argVars, iteration, normalExit, stops, dones, ran>>
      BY <1>3 DEF PollSubProcess, AbortTest, Unchanged, historyVars, startVars
    <2>2. aborts' \in 0..MaxAborts
      BY <1>0, <2>1 DEF RunnerTypes, MaxAborts
    <2> QED
      BY <1>0, <2>1, <2>2 DEF RunnerTypes, argVars
  <1>4. CASE KillEnds \/ KillGivesUp
    <2>1. /\ \E code \in {exitCode, NoCode} : FinishTearDown(code) /\ returncode' = code
          /\ UNCHANGED <<launched, argVars, iteration, stops, aborts, ran>>
      BY <1>4 DEF KillEnds, KillGivesUp, AfterKill, startVars
    <2>2. normalExit' \in {"unset", "yes", "no"} /\ dones' \in Nat
      BY <1>0, <2>1, FinishTypes
    <2>3. UNCHANGED <<launched, args, consumed, iterArgs, iteration, stops, aborts, ran>>
      BY <2>1 DEF argVars
    <2> QED
      BY <1>0, <2>1, <2>2, <2>3 DEF RunnerTypes
  <1>5. CASE FatalReply \/ ReplyTimeout
    <2>1. /\ \/ \E box, expected : TearDown(box, expected, testTimer)
             \/ UNCHANGED <<returncode, normalExit, dones>>
          /\ UNCHANGED <<launched, argVars, iteration, stops, aborts, ran>>
      BY <1>5 DEF FatalReply, ReplyTimeout, Unchanged, startVars
    <2>2. /\ returncode' = returncode /\ dones' \in Nat
          /\ normalExit' \in {"unset", "yes", "no"}
      <3>1. CASE \E box, expected : TearDown(box, expected, testTimer)
        BY <1>0, <3>1, TearDownTypes
      <3>2. CASE UNCHANGED <<returncode, normalExit, dones>>
        BY <1>0, <3>2 DEF RunnerTypes
      <3> QED
        BY <2>1, <3>1, <3>2
    <2>3. UNCHANGED <<launched, args, consumed, iterArgs, iteration, stops, aborts, ran>>
      BY <2>1 DEF argVars
    <2> QED
      BY <1>0, <2>2, <2>3 DEF RunnerTypes
  <1>6. CASE SetUpReply
    <2>1. iteration = 0 /\ consumed > 0
      BY <1>6, FirstAnswer DEF SetUpReply
    <2>2. /\ iteration' = iteration + 1
          /\ normalExit' = "unset"
          /\ ran' = [ran EXCEPT ![iteration + 1] = args]
          /\ UNCHANGED <<launched, returncode, argVars, stops, dones, aborts>>
      BY <1>6 DEF SetUpReply, Start, Unchanged
    <2>3. iteration' \in 0..consumed
      BY <1>0, <2>1, <2>2
    <2>4. args \in 0..NArgs
      BY <1>0, NArgsAssumption DEF RunnerTypes, NArgsAssumption
    <2>5. ran' \in [1..NArgs -> 0..NArgs]
      BY <1>0, <2>2, <2>4 DEF RunnerTypes
    <2> QED
      BY <1>0, <2>2, <2>3, <2>5 DEF RunnerTypes, argVars
  <1>7. CASE StopReplyNext
    <2>1. /\ PrepareArguments /\ consumed < NArgs
          /\ iteration' = iteration + 1
          /\ normalExit' = "unset"
          /\ StopOnce
          /\ ran' = [ran EXCEPT ![iteration + 1] = consumed + 1]
          /\ UNCHANGED <<launched, returncode, dones, aborts>>
      BY <1>7 DEF StopReplyNext, Start, Unchanged
    <2>2. /\ consumed' \in 0..NArgs /\ args' \in 0..consumed' /\ consumed' = consumed + 1
          /\ iterArgs' \in [1..NArgs -> 0..NArgs]
      BY <1>0, <2>1, ArgumentsTaken
    <2>3. iteration' \in 0..consumed'
      BY <1>0, <2>1, <2>2 DEF RunnerTypes
    <2>4. stops' \in [Iterations -> Nat]
      BY <1>0, <2>1, StopTypes
    <2>5. ran' \in [1..NArgs -> 0..NArgs]
      BY <1>0, <2>1, <2>2 DEF RunnerTypes
    <2> QED
      BY <1>0, <2>1, <2>2, <2>3, <2>4, <2>5 DEF RunnerTypes
  <1>8. CASE StopReplyLast
    <2>1. /\ PrepareArguments /\ StopOnce
          /\ \E box, expected, timer : TearDown(box, expected, timer)
          /\ UNCHANGED <<launched, iteration, aborts, ran>>
      BY <1>8 DEF StopReplyLast, Unchanged, startVars
    <2>2. /\ consumed' \in 0..NArgs /\ args' \in 0..consumed' /\ consumed' >= consumed
          /\ iterArgs' \in [1..NArgs -> 0..NArgs]
      BY <1>0, <2>1, ArgumentsTaken
    <2>3. iteration' \in 0..consumed'
      BY <1>0, <2>1, <2>2 DEF RunnerTypes
    <2>4. stops' \in [Iterations -> Nat]
      BY <1>0, <2>1, StopTypes
    <2>5. /\ returncode' = returncode /\ dones' \in Nat
          /\ normalExit' \in {"unset", "yes", "no"}
      BY <1>0, <2>1, TearDownTypes
    <2> QED
      BY <1>0, <2>1, <2>2, <2>3, <2>4, <2>5 DEF RunnerTypes
  <1> QED
    BY <1>1, <1>2, <1>3, <1>4, <1>5, <1>6, <1>7, <1>8 DEF RunnerNext, RunnerDispatch

-----------------------------------------------------------------------------
(* The link, the stops and the process in steps of the runner.             *)

\* A call that is not waited for any more is still expected to be answered.
LEMMA ExpiredCall ==
    ASSUME NEW s \in Seq(Expected), NEW k \in DOMAIN s
    PROVE  LET expired == [s EXCEPT ![k].live = FALSE]
           IN  /\ expired \in Seq(Expected)
               /\ DOMAIN expired = DOMAIN s
               /\ \A j \in DOMAIN s : /\ expired[j].method = s[j].method
                                      /\ expired[j].live => s[j].live
  <1> DEFINE expired == [s EXCEPT ![k].live = FALSE]
  <1>1. s[k] \in Expected
    BY ElementOfSeq, LenProperties
  <1>2. [s[k] EXCEPT !.live = FALSE] \in Expected
    BY <1>1 DEF Expected
  <1>3. expired = [s EXCEPT ![k] = [s[k] EXCEPT !.live = FALSE]]
    OBVIOUS
  <1>4. expired \in Seq(Expected) /\ DOMAIN expired = DOMAIN s
    BY <1>2, <1>3, ExceptSeq, LenProperties
  <1>5. /\ [s[k] EXCEPT !.live = FALSE].method = s[k].method
        /\ [s[k] EXCEPT !.live = FALSE].live = FALSE
    BY <1>1 DEF Expected
  <1>6. \A j \in DOMAIN s : expired[j] = IF j = k THEN [s[k] EXCEPT !.live = FALSE] ELSE s[j]
    BY <1>3
  <1> HIDE DEF expired
  <1>7. \A j \in DOMAIN s : /\ expired[j].method = s[j].method
                            /\ expired[j].live => s[j].live
    BY <1>5, <1>6
  <1> QED
    BY <1>4, <1>7 DEF expired

LEMMA RunnerKeepsLink ==
    ASSUME RInv, RunnerNext, UNCHANGED <<faults, remoteVars>>
    PROVE  LinkTypes' /\ LinkBook' /\ ServesCall'
  <1>0. /\ LinkTypes /\ LinkBook /\ ServesCall
        /\ inbox \in Seq(Messages) /\ pending \in Seq(Expected)
        /\ main' = main /\ faults' = faults
    BY DEF RInv, TypeOK, LinkTypes, Expected, remoteVars
  <1>1. CASE Run \/ RunFails
    <2>1. /\ process = "unborn"
          /\ launched' # "no"
          /\ process' \in {"unborn", "starting"}
          /\ UNCHANGED <<exitCode, calls, pending, inbox, iteration, remote>>
      BY <1>0, <1>1 DEF Run, RunFails, LinkBook, linkVars
    <2>2. LinkTypes'
      BY <1>0, <2>1 DEF LinkTypes
    <2>3. pending = <<>> /\ inbox = <<>> /\ Untouched'
      BY <1>0, <2>1 DEF LinkBook, Untouched
    <2>4. LinkBook'
      BY <2>1, <2>3 DEF LinkBook
    <2>5. ServesCall'
      BY <1>0, <2>1 DEF ServesCall
    <2> QED
      BY <2>2, <2>4, <2>5
  <1>2. CASE KillEnds \/ KillGivesUp
    <2>1. UNCHANGED <<linkVars, launched, iteration, remote, args>>
      BY <1>2 DEF KillEnds, KillGivesUp, AfterKill, argVars
    <2> QED
      BY <1>0, <2>1 DEF LinkTypes, LinkBook, ServesCall, Untouched, linkVars
  <1> SUFFICES ASSUME RunnerDispatch \/ ReplyTimeout \/ AsyncSetupTimeout \/ TestTimeout
                      \/ PollSubProcess \/ AbortTest
               PROVE  LinkTypes' /\ LinkBook' /\ ServesCall'
    BY <1>1, <1>2 DEF RunnerNext
  <1>10. UNCHANGED <<process, exitCode, launched>>
    BY DEF RunnerDispatch, Unchanged, NewRemoteTest, NewRemoteTestLate, RemovedRemoteTest,
        SetUpReply, StartReply, FatalReply, StopReplyNext, StopReplyLast, IgnoredReply,
        RemoteDone, RemoteValidate, ReplyTimeout, AsyncSetupTimeout, TestTimeout,
        PollSubProcess, AbortTest
  <1> SUFFICES /\ calls' \in Seq(Methods) /\ pending' \in Seq(Expected)
               /\ inbox' \in Seq(Messages)
               /\ LinkBook' /\ ServesCall'
    BY <1>0, <1>10 DEF LinkTypes, Expected
  <1>3. <<>> \in Calls
    BY DEF Calls
  <1>4. CASE NewRemoteTest
    <2>1. pending = <<>> /\ iteration = 0 /\ launched # "no"
      <3>1. inbox[1].type = "joined" /\ 1 \in DOMAIN inbox
        BY <1>0, <1>4, Rest DEF NewRemoteTest, Incoming
      <3> QED
        BY <1>0, <1>4, <3>1 DEF LinkBook, Untouched, NewRemoteTest, Idle
    <2>2. CASE Exchange(Tail(inbox), pending, <<"remoteStop">>)
      <3>1. /\ <<"remoteStop">> \in Calls /\ inbox # <<>>
            /\ UNCHANGED <<iteration, args>>
        BY <1>4 DEF Calls, NewRemoteTest, Incoming, argVars
      <3> QED
        BY <1>0, <1>10, <2>2, <3>1, HeadTaken
    <2>3. CASE args # 0 /\ Exchange(Tail(inbox), pending, <<"remoteSetUp">>)
      <3>1. /\ Tail(inbox) \in Seq(Messages)
            /\ \A k \in DOMAIN Tail(inbox) : Tail(inbox)[k].type # "joined"
        BY <1>0, <1>4, Rest DEF LinkBook, NewRemoteTest, Incoming
      <3>2. <<"remoteSetUp">> \in Seq(Methods) /\ DOMAIN <<"remoteSetUp">> = {1}
        BY DEF Methods
      <3>3. /\ calls # <<>> => calls' # <<>>
            /\ calls' \in Seq(Methods)
            /\ pending' \in Seq(Expected)
            /\ inbox' \in Seq(Messages)
            /\ \A k \in DOMAIN inbox' : inbox'[k].type = "joined" =>
                  k \in DOMAIN Tail(inbox) /\ Tail(inbox)[k].type = "joined"
            /\ \A k \in DOMAIN pending' :
                  \/ k \in DOMAIN pending /\ pending'[k] = pending[k]
                  \/ \E j \in DOMAIN <<"remoteSetUp">> :
                        k = Len(pending) + j /\ pending'[k].method = <<"remoteSetUp">>[j]
        BY <1>0, <2>3, <3>1, <3>2, ExchangeKeeps
      <3>4. \A k \in DOMAIN pending' : k = 1
        BY <2>1, <3>2, <3>3
      <3>5. iteration' = 0 /\ args' # 0 /\ process' = "connected"
        BY <1>10, <1>4, <2>1, <2>3 DEF NewRemoteTest, argVars
      <3>6. LinkBook'
        BY <1>10, <2>1, <3>1, <3>3, <3>4, <3>5 DEF LinkBook
      <3> QED
        BY <1>0, <1>10, <3>3, <3>6 DEF ServesCall
    <2> QED
      BY <1>4, <2>2, <2>3 DEF NewRemoteTest
  <1>5. CASE NewRemoteTestLate \/ RemovedRemoteTest \/ RemoteDone \/ RemoteValidate
    <2>1. /\ inbox # <<>> /\ UNCHANGED <<iteration, args>>
          /\ \E ms \in Calls : Exchange(Tail(inbox), pending, ms)
      BY <1>3, <1>5, IfRemoteType
      DEF NewRemoteTestLate, RemovedRemoteTest, RemoteDone, RemoteValidate, Incoming, StopFrom,
          argVars
    <2> QED
      BY <1>0, <1>10, <2>1, HeadTaken
  <1>6. CASE StartReply \/ IgnoredReply \/ FatalReply \/ StopReplyLast
    <2>1. /\ inbox # <<>> /\ pending # <<>>
          /\ \E ms \in Calls : Exchange(Tail(inbox), Tail(pending), ms)
      BY <1>3, <1>6, IfRemoteType
      DEF StartReply, IgnoredReply, FatalReply, StopReplyLast, Answers, Incoming, TearDown
    <2> QED
      BY <1>0, <1>10, <2>1, HeadTaken
  <1>7. CASE SetUpReply \/ StopReplyNext
    <2>1. /\ inbox # <<>> /\ pending # <<>>
          /\ \E ms \in Calls : Exchange(Tail(inbox), Tail(pending), ms)
      BY <1>3, <1>7, IfRemoteType DEF SetUpReply, StopReplyNext, Answers, Incoming, Start
    <2> QED
      BY <1>0, <1>10, <2>1, HeadTaken
  <1>8. CASE AsyncSetupTimeout \/ TestTimeout \/ PollSubProcess \/ AbortTest
    <2>1. /\ UNCHANGED <<iteration, remote, args>>
          /\ \E ms \in Calls : Exchange(inbox, pending, ms) /\ (ms # <<>> => remote)
      BY <1>8, IfRemoteType
      DEF AsyncSetupTimeout, TestTimeout, PollSubProcess, AbortTest, StopFrom, argVars
    <2> QED
      BY <1>0, <1>10, <2>1, InboxKept
  <1>9. CASE ReplyTimeout
    <2>1. /\ UNCHANGED <<iteration, remote, args>>
          /\ \E k \in DOMAIN pending, ms \in Calls :
                /\ Exchange(inbox, [pending EXCEPT ![k].live = FALSE], ms)
                /\ ms # <<>> => remote
      BY <1>3, <1>9, IfRemoteType DEF ReplyTimeout, TearDown, argVars
    <2>2. \E e \in Seq(Expected), ms \in Calls :
              /\ Exchange(inbox, e, ms)
              /\ ms # <<>> => remote
              /\ DOMAIN e = DOMAIN pending
              /\ \A j \in DOMAIN pending : /\ e[j].method = pending[j].method
                                           /\ e[j].live => pending[j].live
      BY <1>0, <2>1, ExpiredCall
    <2>3. PICK e \in Seq(Expected), ms \in Calls :
              /\ Exchange(inbox, e, ms)
              /\ ms # <<>> => remote
              /\ DOMAIN e = DOMAIN pending
              /\ \A j \in DOMAIN pending : /\ e[j].method = pending[j].method
                                           /\ e[j].live => pending[j].live
      BY <2>2
    <2>4. /\ process' = process
          /\ launched' = launched
          /\ UNCHANGED <<iteration, remote, args, main>>
      BY <1>0, <1>10, <2>1
    <2> QED
      BY <2>3, <2>4, InboxKept, Zenon
  <1> QED
    BY <1>4, <1>5, <1>6, <1>7, <1>8, <1>9 DEF RunnerDispatch

LEMMA RunnerKeepsStops ==
    ASSUME RInv, RunnerNext
    PROVE  StopBook'
  <1>0. /\ RunnerTypes /\ StopBook
        /\ iteration \in Nat /\ consumed \in 0..NArgs /\ NArgs \in Nat
        /\ iteration <= consumed
        /\ stops \in [Iterations -> Nat]
    BY NArgsAssumption DEF RInv, TypeOK, RunnerTypes, NArgsAssumption
  <1>1. CASE Run \/ RunFails \/ NewRemoteTest \/ NewRemoteTestLate \/ RemovedRemoteTest
             \/ StartReply \/ FatalReply \/ IgnoredReply \/ RemoteDone \/ RemoteValidate
             \/ ReplyTimeout \/ AsyncSetupTimeout \/ TestTimeout \/ PollSubProcess
             \/ AbortTest \/ KillEnds \/ KillGivesUp
    <2>1. UNCHANGED <<iteration, stopping, stops, leaked>>
      BY <1>1
      DEF Run, RunFails, NewRemoteTest, NewRemoteTestLate, RemovedRemoteTest, StartReply,
          FatalReply, IgnoredReply, RemoteDone, RemoteValidate, ReplyTimeout,
          AsyncSetupTimeout, TestTimeout, PollSubProcess, AbortTest, KillEnds, KillGivesUp,
          AfterKill, historyVars, startVars
    <2>2. testTimer' => testTimer
      BY <1>1, Zenon
      DEF Run, RunFails, NewRemoteTest, NewRemoteTestLate, RemovedRemoteTest, StartReply,
          FatalReply, IgnoredReply, RemoteDone, RemoteValidate, ReplyTimeout,
          AsyncSetupTimeout, TestTimeout, PollSubProcess, AbortTest, KillEnds, KillGivesUp,
          AfterKill, TearDown, FinishTearDown, timerVars
    <2> QED
      BY <1>0, <2>1, <2>2 DEF StopBook, EachIterationStopsOnce, TimerOnlyWhileRunning
  <1>2. CASE SetUpReply
    <2>1. iteration = 0 /\ consumed > 0
      BY <1>2, FirstAnswer DEF SetUpReply
    <2>2. /\ iteration' = 1
          /\ stopping' = FALSE
          /\ stops' = stops
      BY <1>2, <2>1 DEF SetUpReply, Start
    <2>6. ~leaked'
      <3>1. ~testTimer /\ ~leaked
        BY <1>0, <2>1 DEF StopBook, TimerOnlyWhileRunning
      <3>2. leaked' = (leaked \/ testTimer)
        BY <1>2, Zenon DEF SetUpReply, Start
      <3> QED
        BY <3>1, <3>2, Zenon
    <2>3. 1 \in Iterations
      BY <1>0, <2>1 DEF Iterations
    <2>4. \A i \in Iterations : i > 0 => stops[i] = 0
      BY <2>1, <1>0 DEF StopBook, EachIterationStopsOnce
    <2>5. EachIterationStopsOnce'
      BY <2>2, <2>3, <2>4 DEF EachIterationStopsOnce, Iterations
    <2> QED
      BY <2>2, <2>3, <2>4, <2>5, <2>6 DEF StopBook, TimerOnlyWhileRunning
  <1>3. ASSUME StopOnce
        PROVE  /\ \A i \in Iterations : i \in 1..iteration => stops'[i] = 1
               /\ \A i \in Iterations : i > iteration => stops'[i] = 0
               /\ stops'[iteration] = 1
    <2>1. /\ stopping => stops' = stops
          /\ ~stopping => stops'[iteration] = stops[iteration] + 1
          /\ \A i \in Iterations : i # iteration => stops'[i] = stops[i]
      BY <1>0, <1>3, StopTypes
    <2>2. stops'[iteration] = 1
      BY <1>0, <2>1 DEF StopBook
    <2>3. ASSUME NEW i \in Iterations
          PROVE  /\ i \in 1..iteration => stops'[i] = 1
                 /\ i > iteration => stops'[i] = 0
      BY <1>0, <2>1, <2>2 DEF StopBook, EachIterationStopsOnce, Iterations
    <2> QED
      BY <2>2, <2>3
  <1>4. CASE StopReplyNext
    <2>1. /\ StopOnce
          /\ iteration' = iteration + 1
          /\ stopping' = FALSE
          /\ consumed < NArgs
      BY <1>4 DEF StopReplyNext, Start
    <2>2. iteration + 1 \in Iterations /\ iteration + 1 > iteration
      BY <1>0, <2>1 DEF Iterations
    <2>3. stops'[iteration'] = 0
      BY <1>3, <2>1, <2>2
    <2>4. ASSUME NEW i \in Iterations
          PROVE  /\ i \in 1..(iteration' - 1) => stops'[i] = 1
                 /\ i = iteration' => stops'[i] <= 1
                 /\ i > iteration' => stops'[i] = 0
      <3>1. iteration' - 1 = iteration /\ i \in Nat
        BY <1>0, <2>1 DEF Iterations
      <3> QED
        BY <1>0, <1>3, <2>1, <2>3, <3>1
    <2>5. EachIterationStopsOnce'
      BY <2>4 DEF EachIterationStopsOnce, Iterations
    <2>6. ~leaked'
      BY <1>0, <1>4 DEF StopReplyNext, Start, StopBook, TimerOnlyWhileRunning
    <2> QED
      BY <1>0, <2>1, <2>3, <2>5, <2>6 DEF StopBook, TimerOnlyWhileRunning
  <1>5. CASE StopReplyLast
    <2>1. /\ StopOnce
          /\ iteration' = iteration
          /\ stopping' = TRUE
      BY <1>5 DEF StopReplyLast
    <2>2. testTimer' => testTimer /\ stopping
      BY <1>5, Zenon DEF StopReplyLast, TearDown, FinishTearDown
    <2>3. testTimer' = FALSE \/ ~testTimer'
      BY <1>0, <2>2 DEF StopBook, TimerOnlyWhileRunning
    <2>4. ASSUME NEW i \in Iterations
          PROVE  /\ i \in 1..(iteration' - 1) => stops'[i] = 1
                 /\ i = iteration' => stops'[i] <= 1
                 /\ i > iteration' => stops'[i] = 0
      BY <1>0, <1>3, <2>1 DEF Iterations
    <2>5. EachIterationStopsOnce'
      BY <2>4 DEF EachIterationStopsOnce, Iterations
    <2>6. TimerOnlyWhileRunning'
      BY <1>0, <1>5, <2>3 DEF TimerOnlyWhileRunning, StopBook, StopReplyLast, startVars
    <2> QED
      BY <1>3, <2>1, <2>5, <2>6 DEF StopBook
  <1> QED
    BY <1>1, <1>2, <1>4, <1>5 DEF RunnerNext, RunnerDispatch

LEMMA FinishedYes ==
    ASSUME NEW code, FinishTearDown(code), normalExit' = "yes"
    PROVE  code = 0 \/ normalExit = "yes"
BY DEF FinishTearDown

LEMMA RunnerKeepsExit ==
    ASSUME RInv, RunnerNext, faults' = faults
    PROVE  ExitBook'
  <1>0. /\ ExitBook /\ LinkBook /\ RunnerTypes /\ dones \in Nat
        /\ exitCode \in {0, 1} /\ gaveUp \in BOOLEAN
    BY DEF RInv, TypeOK, RunnerTypes, LinkTypes, RunnerFlags
  <1>1. CASE Run
    BY <1>0, <1>1 DEF Run, ExitBook, NoOrphan, LinkBook, historyVars
  <1>2. CASE RunFails
    BY <1>0, <1>2 DEF RunFails, ExitBook, NoOrphan, LinkBook, historyVars, linkVars
  <1>3. CASE KillEnds
    <2>1. process' = "exited" /\ process = "exited" /\ launched' # "no"
      BY <1>0, <1>3 DEF KillEnds, AfterKill, LinkBook, linkVars
    <2>2. /\ exitCode' = exitCode /\ returncode' = exitCode /\ gaveUp' = gaveUp
          /\ normalExit' = "yes" => exitCode = 0 \/ normalExit = "yes"
      BY <1>3, FinishedYes DEF KillEnds, AfterKill, linkVars
    <2> QED
      BY <1>0, <2>1, <2>2 DEF ExitBook, NoOrphan
  <1>7. CASE KillGivesUp
    <2>1. /\ UNCHANGED <<process, exitCode, launched>> /\ process # "exited"
          /\ process # "unborn"
          /\ returncode' = NoCode /\ gaveUp' = TRUE /\ "undying" \in faults
      BY <1>7 DEF KillGivesUp, AfterKill, linkVars
    <2>2. normalExit' = "yes" => NoCode = 0 \/ normalExit = "yes"
      BY <1>7, FinishedYes DEF KillGivesUp, AfterKill
    <2> QED
      BY <1>0, <2>1, <2>2 DEF ExitBook, NoOrphan, LinkBook, NoCode
  <1>4. CASE PollSubProcess
    BY <1>0, <1>4 DEF PollSubProcess, Idle, Unchanged, historyVars, ExitBook, NoOrphan
  <1>5. CASE FatalReply \/ StopReplyLast \/ ReplyTimeout
    <2>1. /\ launched = "yes"
          /\ UNCHANGED <<launched, process, exitCode, gaveUp>>
          /\ \/ \E box, expected, timer : TearDown(box, expected, timer)
             \/ UNCHANGED <<hasProcess, dones, returncode, normalExit>>
      BY <1>5 DEF FatalReply, StopReplyLast, ReplyTimeout, Idle, Unchanged
    <2>2. /\ UNCHANGED <<hasProcess, returncode>>
          /\ hasProcess => dones' = dones
          /\ normalExit' = "yes" => returncode = 0 \/ normalExit = "yes"
      BY <1>0, <2>1, TearDownTypes, FinishedYes DEF TearDown
    <2> QED
      BY <1>0, <2>1, <2>2 DEF ExitBook, NoOrphan, NoCode
  <1>6. CASE NewRemoteTest \/ NewRemoteTestLate \/ RemovedRemoteTest \/ SetUpReply \/ StartReply
             \/ StopReplyNext \/ IgnoredReply \/ RemoteDone \/ RemoteValidate
             \/ AsyncSetupTimeout \/ TestTimeout \/ AbortTest
    <2>1. /\ UNCHANGED <<process, exitCode, launched, gaveUp, hasProcess, returncode, dones>>
          /\ normalExit' = "yes" => normalExit = "yes"
      BY <1>6
      DEF NewRemoteTest, NewRemoteTestLate, RemovedRemoteTest, SetUpReply, StartReply,
          StopReplyNext, IgnoredReply, RemoteDone, RemoteValidate, AsyncSetupTimeout,
          TestTimeout, AbortTest, Unchanged, historyVars, Start
    <2> QED
      BY <1>0, <2>1 DEF ExitBook, NoOrphan
  <1> QED
    BY <1>1, <1>2, <1>3, <1>4, <1>5, <1>6, <1>7 DEF RunnerNext, RunnerDispatch

LEMMA RunnerKeepsArgs ==
    ASSUME RInv, RunnerNext
    PROVE  ArgsBook'
  <1>0. /\ RunnerTypes /\ ArgsBook
        /\ NArgs \in Nat /\ iteration \in Nat /\ consumed \in 0..NArgs
        /\ iteration <= consumed
        /\ iterArgs \in [1..NArgs -> 0..NArgs] /\ ran \in [1..NArgs -> 0..NArgs]
    BY NArgsAssumption DEF RInv, TypeOK, RunnerTypes, NArgsAssumption
  <1>1. CASE Run \/ RunFails
    <2>1. PrepareArguments /\ iteration' = iteration /\ iteration = 0 /\ ran' = ran
      BY <1>1 DEF Run, RunFails, RInv, LinkBook, Untouched, historyVars, startVars
    <2>2. args' = 0 \/ iterArgs'[1] = args'
      BY <1>0, <2>1 DEF PrepareArguments
    <2> QED
      BY <2>1, <2>2 DEF ArgsBook, RecordedArgsRan
  <1>2. CASE SetUpReply
    <2>1. iteration = 0 /\ args # 0 /\ consumed > 0
      BY <1>2, FirstAnswer DEF SetUpReply
    <2>2. /\ iteration' = 1 /\ iterArgs' = iterArgs
          /\ ran' = [ran EXCEPT ![1] = args]
      BY <1>2, <2>1 DEF SetUpReply, Start, argVars
    <2>3. iterArgs[1] = args
      BY <1>0, <2>1 DEF ArgsBook
    <2>4. ran'[1] = args
      BY <1>0, <2>1, <2>2
    <2> QED
      BY <2>2, <2>3, <2>4 DEF ArgsBook, RecordedArgsRan
  <1>3. CASE StopReplyNext
    <2>1. /\ consumed < NArgs
          /\ iteration' = iteration + 1
          /\ iterArgs' = [iterArgs EXCEPT ![iteration + 1] = consumed + 1]
          /\ ran' = [ran EXCEPT ![iteration + 1] = consumed + 1]
      BY <1>3 DEF StopReplyNext, Start, PrepareArguments
    <2>2. \A i \in 1..(iteration + 1) : i \in 1..NArgs /\ (i = iteration + 1 \/ i \in 1..iteration)
      BY <1>0, <2>1
    <2>3. \A i \in 1..(iteration + 1) : iterArgs'[i] = ran'[i]
      BY <1>0, <2>1, <2>2 DEF ArgsBook, RecordedArgsRan
    <2> QED
      BY <1>0, <2>1, <2>3 DEF ArgsBook, RecordedArgsRan
  <1>4. CASE StopReplyLast
    <2>1. /\ args' = 0
          /\ UNCHANGED <<iteration, iterArgs, ran>>
      BY <1>0, <1>4 DEF StopReplyLast, PrepareArguments, startVars
    <2> QED
      BY <1>0, <2>1 DEF ArgsBook, RecordedArgsRan
  <1>5. CASE NewRemoteTest \/ NewRemoteTestLate \/ RemovedRemoteTest \/ StartReply
             \/ FatalReply \/ IgnoredReply \/ RemoteDone \/ RemoteValidate
             \/ ReplyTimeout \/ AsyncSetupTimeout \/ TestTimeout \/ PollSubProcess
             \/ AbortTest \/ KillEnds \/ KillGivesUp
    <2>1. UNCHANGED <<iteration, args, iterArgs, ran>>
      BY <1>5
      DEF NewRemoteTest, NewRemoteTestLate, RemovedRemoteTest, StartReply,
          FatalReply, IgnoredReply, RemoteDone, RemoteValidate, ReplyTimeout,
          AsyncSetupTimeout, TestTimeout, PollSubProcess, AbortTest, KillEnds, KillGivesUp,
          AfterKill, historyVars, startVars, argVars
    <2> QED
      BY <1>0, <2>1 DEF ArgsBook, RecordedArgsRan
  <1> QED
    BY <1>1, <1>2, <1>3, <1>4, <1>5 DEF RunnerNext, RunnerDispatch

-----------------------------------------------------------------------------
(* The invariant.                                                          *)

LEMMA InitRInv == Init => RInv
  <1> SUFFICES ASSUME Init
               PROVE  RInv
    OBVIOUS
  <1>1. LinkTypes
    BY DEF Init, LinkInit, LinkTypes
  <1>2. RemoteTypes
    <2>1. 0 \in 0..MaxItems
      BY MaxItemsAssumption DEF MaxItemsAssumption
    <2> QED
      BY <2>1 DEF Init, RemoteInit, RemoteTypes
  <1>3. RunnerFlags
    BY DEF Init, RunnerInit, RunnerFlags
  <1>4. RunnerTypes
    BY NArgsAssumption
    DEF Init, RunnerInit, RunnerTypes, NArgsAssumption, NoCode, Iterations, MaxAborts
  <1>5. LinkBook
    BY DEF Init, LinkInit, RunnerInit, LinkBook, Untouched
  <1>6. ServesCall
    BY DEF Init, RemoteInit, ServesCall
  <1>7. StopBook
    BY NArgsAssumption
    DEF Init, RunnerInit, StopBook, EachIterationStopsOnce, TimerOnlyWhileRunning,
        Iterations, NArgsAssumption
  <1>8. ExitBook
    BY DEF Init, RunnerInit, ExitBook, NoOrphan
  <1>9. ArgsBook
    BY DEF Init, RunnerInit, ArgsBook, RecordedArgsRan
  <1> QED
    BY <1>1, <1>2, <1>3, <1>4, <1>5, <1>6, <1>7, <1>8, <1>9 DEF RInv, TypeOK

LEMMA RunnerKeepsRInv ==
    ASSUME RInv, RunnerNext, UNCHANGED <<faults, remoteVars>>
    PROVE  RInv'
  <1>1. LinkTypes' /\ LinkBook' /\ ServesCall'
    BY RunnerKeepsLink
  <1>2. RemoteTypes'
    BY DEF RInv, TypeOK, RemoteTypes, remoteVars
  <1> QED
    BY <1>1, <1>2, RunnerKeepsFlags, RunnerKeepsTypes, RunnerKeepsStops, RunnerKeepsExit,
       RunnerKeepsArgs
    DEF RInv, TypeOK

LEMMA StutterKeepsRInv ==
    ASSUME RInv, UNCHANGED vars
    PROVE  RInv'
  <1> USE DEF RInv, TypeOK, vars, linkVars, remoteVars
  <1>1. LinkTypes'
    BY DEF LinkTypes
  <1>2. RemoteTypes'
    BY DEF RemoteTypes
  <1>3. RunnerTypes' /\ RunnerFlags' /\ StopBook' /\ ArgsBook'
    BY RunnerStays
  <1>4. LinkBook' /\ ServesCall'
    BY DEF LinkBook, Untouched, ServesCall, runnerVars, argVars
  <1>5. ExitBook'
    BY RunnerStays DEF ExitBook, NoOrphan
  <1> QED
    BY <1>1, <1>2, <1>3, <1>4, <1>5

LEMMA NextKeepsRInv == RInv /\ [Next]_vars => RInv'
BY ProgramKeepsRInv, KillKeepsRInv, RunnerKeepsRInv, StutterKeepsRInv
DEF Next, Program, Runner, System

LEMMA AlwaysRInv == Spec => []RInv
BY InitRInv, NextKeepsRInv, PTL DEF Spec

-----------------------------------------------------------------------------
(* What follows.                                                           *)

\* In every environment the variables of a session have their types: only
\* the four methods are called, answers are matched with calls, a process is
\* reported with the exit code it left, and a runner never counts more
\* iterations than it took argument sets.
THEOREM TypeCorrect == Spec => []TypeOK
  <1>1. RInv => TypeOK
    BY DEF RInv
  <1> QED
    BY <1>1, AlwaysRInv, PTL

\* However the answers to repeated stops, the timers and an abort fall, every
\* iteration is reported as stopped once: before the next one starts.
THEOREM EachIterationStopsOnceTheorem == Spec => []EachIterationStopsOnce
  <1>1. RInv => EachIterationStopsOnce
    BY DEF RInv, StopBook
  <1> QED
    BY <1>1, AlwaysRInv, PTL

\* start() never overwrites the identifier of an armed test timer.
THEOREM TimerOnlyWhileRunningTheorem == Spec => []TimerOnlyWhileRunning
  <1>1. RInv => TimerOnlyWhileRunning
    BY DEF RInv, StopBook
  <1> QED
    BY <1>1, AlwaysRInv, PTL

\* "done" is only emitted once the program's process is gone or kill_process()
\* has given it up, whichever of the poll, kill_process() and the program
\* itself ended it; what is recorded as a normal exit was one.
THEOREM NoOrphanTheorem == Spec => []NoOrphan
  <1>1. RInv => NoOrphan
    BY DEF RInv, ExitBook
  <1> QED
    BY <1>1, AlwaysRInv, PTL

\* The arguments recorded for an iteration are those it was started with,
\* although each stop() takes a set and records it for the next one.
THEOREM RecordedArgsRanTheorem == Spec => []RecordedArgsRan
  <1>1. RInv => RecordedArgsRan
    BY DEF RInv, ArgsBook
  <1> QED
    BY <1>1, AlwaysRInv, PTL

-----------------------------------------------------------------------------
(* When nothing goes wrong: one call at a time, and what it leads to.      *)

Waiting(m) == <<[method |-> m, live |-> TRUE]>>

\* The only call the runner waits for is m, not answered yet ...
Asked(m) == pending = Waiting(m) /\ calls = <<m>> /\ inbox = <<>>

\* ... or answered.
Answered(m) ==
    /\ pending = Waiting(m) /\ calls = <<>>
    /\ inbox # <<>> /\ Head(inbox) = Reply(m, TRUE)

\* Behind the first messages come the results of this iteration, and the
\* done signal if the run has ended.
Reports(from, ended) ==
    /\ Len(inbox) >= from /\ (ended => Len(inbox) > from)
    /\ \A k \in DOMAIN inbox : k > from =>
          inbox[k] = IF ended /\ k = Len(inbox) THEN Done ELSE Validate(iteration)

Quiet == main = "loop" /\ worker = "none" /\ ~thread
Alive ==
    launched = "yes" /\ process = "connected" /\ remote /\ listening /\ ~stopping /\ ~exiting

Booting ==
    /\ Quiet /\ ~exiting /\ ~stopping /\ listening
    /\ runlevel = "idle" /\ iteration = 0 /\ pending = <<>> /\ calls = <<>>
    /\ \/ launched = "no" /\ inbox = <<>> /\ consumed = 0
       \/ /\ launched = "yes" /\ args = consumed
          /\ consumed = IF NArgs = 0 THEN 0 ELSE 1
          /\ \/ process = "starting" /\ inbox = <<>>
             \/ process = "connected" /\ inbox = <<Joined>>

SettingUp ==
    /\ Alive /\ Quiet /\ iteration = 0 /\ args = 1 /\ consumed = 1
    /\ \/ Asked("remoteSetUp") /\ runlevel = "idle"
       \/ Answered("remoteSetUp") /\ Tail(inbox) = <<>> /\ runlevel = "setup" /\ run = 1

Working(from) ==
    /\ runlevel = "started" /\ main = "loop" /\ calls = <<>>
    /\ \/ worker = "testing" /\ thread /\ workerRun = run /\ Reports(from, FALSE)
       \/ worker = "none" /\ ~thread /\ Reports(from, TRUE)

Testing ==
    /\ Alive /\ iteration > 0 /\ run = iteration /\ consumed = iteration
    /\ \/ Asked("remoteStart") /\ runlevel = "setup" /\ Quiet
       \/ /\ Asked("remoteStart") /\ runlevel = "setup" /\ ~thread
          /\ main = "spawned" /\ worker = "testing" /\ workerRun = run
       \/ Answered("remoteStart") /\ Working(1)
       \/ pending = <<>> /\ Working(0)

Stopping ==
    /\ Alive /\ Quiet /\ consumed = iteration
    /\ \/ iteration > 0 /\ Asked("remoteStop") /\ runlevel = "started" /\ run = iteration
       \/ /\ iteration > 0 /\ Answered("remoteStop") /\ Tail(inbox) = <<>>
          /\ runlevel = "setup" /\ run = iteration + 1
       \/ /\ NArgs = 0 /\ runlevel = "idle"
          /\ Asked("remoteStop") \/ (Answered("remoteStop") /\ Tail(inbox) = <<>>)

\* A program that was never set up does not obey remoteTearDown.
Ending ==
    /\ launched = "yes" /\ Quiet /\ stopping /\ ~listening /\ ~pollTimer
    /\ iteration = NArgs /\ consumed = NArgs
    /\ pending \in {<<>>, Waiting("remoteTearDown")}
    /\ \A k \in DOMAIN inbox : inbox[k] \in {Reply("remoteTearDown", TRUE), Left}
    /\ \/ /\ process = "connected" /\ busy /\ calls = <<"remoteTearDown">> /\ ~exiting
          /\ runlevel = IF NArgs = 0 THEN "idle" ELSE "setup"
       \/ process = "connected" /\ busy /\ calls = <<>> /\ (exiting <=> NArgs > 0)
       \/ process = "exited" /\ calls = <<>> /\ (NArgs > 0 => exitCode = 0)

Healthy ==
    /\ \A f \in filed : f[1] = f[2]
    /\ \/ /\ dones = 0 /\ normalExit = "unset" /\ ~busy
          /\ Booting \/ SettingUp \/ Testing \/ Stopping
       \/ dones = 0 /\ normalExit = "unset" /\ busy /\ Ending
       \/ dones = 1 /\ ~busy /\ Ending /\ (NArgs > 0 => normalExit = "yes")

LEMMA MessageFields ==
    /\ Joined.type = "joined" /\ Left.type = "left" /\ Done.type = "done"
    /\ \A n : Validate(n).type = "validate" /\ Validate(n).run = n
    /\ \A m, ok : Reply(m, ok).type = "reply" /\ Reply(m, ok).method = m /\ Reply(m, ok).ok = ok
    /\ \A m : Error(m).type = "error" /\ Error(m).method = m
    /\ \A m : Reply(m, TRUE).type = "reply" /\ Reply(m, TRUE).ok
BY DEF Joined, Left, Done, Error, Validate, Reply

LEMMA Single ==
    ASSUME NEW x
    PROVE  /\ <<x>> # <<>> /\ Head(<<x>>) = x /\ Tail(<<x>>) = <<>>
           /\ Append(<<>>, x) = <<x>> /\ Len(<<x>>) = 1 /\ DOMAIN <<x>> = {1} /\ <<x>>[1] = x
OBVIOUS

LEMMA WaitingFor ==
    ASSUME NEW m
    PROVE  /\ Waiting(m) # <<>> /\ Tail(Waiting(m)) = <<>>
           /\ Head(Waiting(m)) = [method |-> m, live |-> TRUE]
           /\ \A n, b : Head(Waiting(m)) = [method |-> n, live |-> b] => n = m
           /\ Head(Waiting(m)).live
  <1> DEFINE x == [method |-> m, live |-> TRUE]
  <1>1. Waiting(m) = <<x>> /\ x.live /\ x.method = m
    BY DEF Waiting
  <1>2. \A n, b : x = [method |-> n, live |-> b] => n = m
    OBVIOUS
  <1> HIDE DEF x
  <1>3. <<x>> # <<>> /\ Tail(<<x>>) = <<>> /\ Head(<<x>>) = x
    BY Single
  <1> QED
    BY <1>1, <1>2, <1>3 DEF x

\* A callback that calls nothing.
LEMMA NoCall ==
    ASSUME LinkTypes, NEW box \in Seq(Messages), NEW expected \in Seq(Expected),
           Exchange(box, expected, <<>>)
    PROVE  pending' = expected /\ calls' = calls /\ inbox' = box
  <1>1. <<>> \in Seq(Methods) /\ Len(<<>>) = 0
    OBVIOUS
  <1>2. pending' = expected
    BY <1>1, ExchangeKeeps
  <1>3. \/ calls' = calls \o <<>> /\ inbox' = box
        \/ inbox' = box \o Errors(<<>>) /\ calls' = calls
    BY <1>1 DEF Exchange
  <1>4. calls \o <<>> = calls /\ box \o Errors(<<>>) = box
    BY NoErrors, ConcatEmptySeq DEF LinkTypes
  <1> QED
    BY <1>2, <1>3, <1>4

\* A callback that makes the only call.
LEMMA OneCall ==
    ASSUME process = "connected", calls = <<>>, NEW m \in Methods, NEW box,
           Exchange(box, <<>>, <<m>>)
    PROVE  pending' = Waiting(m) /\ calls' = <<m>> /\ inbox' = box
  <1> DEFINE ms == <<m>>
             x == [k \in DOMAIN ms |-> [method |-> ms[k], live |-> TRUE]]
             r == [method |-> m, live |-> TRUE]
  <1>1. x = Waiting(m)
    <2>1. DOMAIN ms = 1..1 /\ \A k \in DOMAIN ms : ms[k] = m
      OBVIOUS
    <2>2. r \in Expected
      BY DEF Expected
    <2> HIDE DEF ms
    <2>3. \A k \in 1..1 : [method |-> ms[k], live |-> TRUE] = r
      BY <2>1
    <2> HIDE DEF r
    <2>4. x = [k \in 1..1 |-> r]
      BY <2>1, <2>3
    <2>5. <<r>> = [k \in 1..1 |-> r]
      OBVIOUS
    <2> QED
      BY <2>4, <2>5 DEF Waiting, r
  <1>2. pending' = <<>> \o x /\ calls' = <<>> \o <<m>> /\ inbox' = box
    BY DEF Exchange
  <1>3. <<>> \o <<m>> = <<m>>
    BY ConcatEmptySeq
  <1>4. Waiting(m) \in Seq({[method |-> m, live |-> TRUE]})
    BY DEF Waiting
  <1>5. <<>> \o Waiting(m) = Waiting(m)
    BY <1>4, ConcatEmptySeq
  <1> QED
    BY <1>1, <1>2, <1>3, <1>5

LEMMA AskedFacts ==
    ASSUME NEW m, Asked(m)
    PROVE  /\ calls # <<>> /\ Head(calls) = m /\ Tail(calls) = <<>>
           /\ inbox = <<>> /\ pending = Waiting(m)
BY Single DEF Asked

LEMMA AnsweredFacts ==
    ASSUME NEW m, Answered(m)
    PROVE  /\ calls = <<>> /\ inbox # <<>> /\ Head(inbox).type = "reply" /\ Head(inbox).ok
           /\ pending = Waiting(m)
BY MessageFields DEF Answered

\* The program answers the only call.
LEMMA AnswersIt ==
    ASSUME NEW m, Asked(m), Answer(TRUE), pending' = pending
    PROVE  /\ Answered(m)' /\ Tail(inbox') = <<>> /\ Len(inbox') = 1 /\ DOMAIN inbox' = {1}
           /\ calls' = <<>>
  <1>1. calls' = <<>> /\ inbox' = Append(<<>>, Reply(m, TRUE)) /\ pending' = Waiting(m)
    BY AskedFacts DEF Answer
  <1>2. inbox' = <<Reply(m, TRUE)>>
    BY <1>1, Single
  <1> QED
    BY <1>1, <1>2, Single DEF Answered, Waiting

\* A result of the iteration, or its end, behind the messages that were sent.
LEMMA ReportsMore ==
    ASSUME inbox \in Seq(Messages), NEW from \in Nat, Reports(from, FALSE),
           NEW m, NEW ended \in BOOLEAN, m = IF ended THEN Done ELSE Validate(iteration),
           inbox' = Append(inbox, m), m \in Messages, iteration' = iteration
    PROVE  /\ Reports(from, ended)'
           /\ inbox # <<>> => inbox' # <<>> /\ Head(inbox') = Head(inbox)
  <1>1. /\ inbox' \in Seq(Messages)
        /\ Len(inbox') = Len(inbox) + 1
        /\ \A k \in 1..Len(inbox) : inbox'[k] = inbox[k]
        /\ inbox'[Len(inbox) + 1] = m
    BY AppendProperties
  <1>2. /\ Len(inbox) \in Nat /\ DOMAIN inbox = 1..Len(inbox)
        /\ DOMAIN inbox' = 1..(Len(inbox) + 1)
    BY <1>1, LenProperties
  <1>3. \A k \in 1..Len(inbox) : k > from => inbox[k] = Validate(iteration)
    BY <1>2 DEF Reports
  <1>4. Len(inbox) >= from
    BY DEF Reports
  <1>5. Reports(from, ended)'
    <2>1. Len(inbox') >= from /\ (ended => Len(inbox') > from)
      BY <1>1, <1>2, <1>4
    <2>2. ASSUME NEW k \in DOMAIN inbox', k > from
          PROVE  inbox'[k] = IF ended /\ k = Len(inbox') THEN Done ELSE Validate(iteration)
      <3>1. CASE k = Len(inbox) + 1
        BY <1>1, <3>1
      <3>2. CASE k # Len(inbox) + 1
        <4>1. k \in 1..Len(inbox) /\ k # Len(inbox')
          BY <1>1, <1>2, <3>2
        <4> QED
          BY <1>1, <1>3, <2>2, <4>1
      <3> QED
        BY <3>1, <3>2
    <2> QED
      BY <2>1, <2>2 DEF Reports
  <1>6. inbox # <<>> => inbox' # <<>> /\ Head(inbox') = Head(inbox)
    <2>1. inbox # <<>> => Len(inbox) >= 1 /\ Head(inbox) = inbox[1]
      BY <1>2, EmptySeq, HeadTailProperties
    <2>2. inbox' # <<>> /\ Head(inbox') = inbox'[1]
      BY <1>1, <1>2, EmptySeq, HeadTailProperties
    <2> QED
      BY <1>1, <1>2, <2>1, <2>2
  <1> QED
    BY <1>5, <1>6

\* The runner takes the first message.
LEMMA ReportsLess ==
    ASSUME inbox \in Seq(Messages), inbox # <<>>, NEW ended \in BOOLEAN,
           inbox' = Tail(inbox), iteration' = iteration
    PROVE  /\ Reports(1, ended) => Reports(0, ended)'
           /\ Reports(0, ended) /\ Head(inbox) = Validate(iteration) => Reports(0, ended)'
           /\ Reports(0, ended) => Head(inbox) \in {Done, Validate(iteration)}
           /\ Reports(0, ended) /\ Head(inbox) = Done => ended /\ inbox' = <<>>
  <1>1. /\ Head(inbox) = inbox[1]
        /\ Tail(inbox) \in Seq(Messages)
        /\ Len(Tail(inbox)) = Len(inbox) - 1
        /\ \A k \in 1..Len(Tail(inbox)) : Tail(inbox)[k] = inbox[k + 1]
    BY HeadTailProperties
  <1>2. /\ Len(inbox) \in Nat /\ Len(inbox) >= 1 /\ DOMAIN inbox = 1..Len(inbox)
        /\ DOMAIN inbox' = 1..Len(inbox')
        /\ Len(inbox') = Len(inbox) - 1
        /\ \A k \in DOMAIN inbox' : inbox'[k] = inbox[k + 1]
    BY <1>1, LenProperties, EmptySeq
  <1>3. Done # Validate(iteration)
    BY MessageFields
  <1>4. Reports(1, ended) => Reports(0, ended)'
    BY <1>2 DEF Reports
  <1>5. Reports(0, ended) =>
           Head(inbox) = IF ended /\ 1 = Len(inbox) THEN Done ELSE Validate(iteration)
    BY <1>1, <1>2 DEF Reports
  <1>6. ASSUME Reports(0, ended), Head(inbox) = Validate(iteration)
        PROVE  Reports(0, ended)'
    <2>1. ended => Len(inbox) > 1
      BY <1>2, <1>3, <1>5, <1>6
    <2> QED
      BY <1>2, <1>6, <2>1 DEF Reports
  <1>7. ASSUME Reports(0, ended), Head(inbox) = Done
        PROVE  ended /\ inbox' = <<>>
    <2>1. ended /\ Len(inbox) = 1
      BY <1>3, <1>5, <1>7
    <2> QED
      BY <1>1, <1>2, <2>1, EmptySeq
  <1> QED
    BY <1>4, <1>5, <1>6, <1>7

LEMMA AppendedOne ==
    ASSUME NEW S, NEW s \in Seq(Messages), \A k \in DOMAIN s : s[k] \in S,
           NEW m \in Messages, m \in S
    PROVE  \A k \in DOMAIN Append(s, m) : Append(s, m)[k] \in S
  <1>1. /\ Append(s, m) \in Seq(Messages)
        /\ Len(Append(s, m)) = Len(s) + 1
        /\ \A k \in 1..Len(s) : Append(s, m)[k] = s[k]
        /\ Append(s, m)[Len(s) + 1] = m
    BY AppendProperties
  <1>2. /\ Len(s) \in Nat /\ DOMAIN s = 1..Len(s)
        /\ DOMAIN Append(s, m) = 1..(Len(s) + 1)
    BY <1>1, LenProperties
  <1> QED
    BY <1>1, <1>2

\* At which stage the program serves a call.
LEMMA NextCall ==
    ASSUME Healthy, NEW m, Serving(m)
    PROVE  /\ m = "remoteSetUp" => SettingUp /\ Asked(m) /\ runlevel = "idle" /\ dones = 0
           /\ m = "remoteStart" =>
                 Testing /\ Asked(m) /\ runlevel = "setup" /\ Quiet /\ dones = 0
           /\ m = "remoteStop" => Stopping /\ Asked(m) /\ dones = 0
           /\ m = "remoteTearDown" => Ending /\ calls = <<m>> /\ busy
  <1>1. calls # <<>> /\ Head(calls) = m /\ main = "loop"
    BY DEF Serving
  <1>2. ~Booting
    BY <1>1 DEF Booting
  <1>3. SettingUp => m = "remoteSetUp" /\ Asked(m) /\ runlevel = "idle"
    BY <1>1, AskedFacts, AnsweredFacts DEF SettingUp
  <1>4. Testing => m = "remoteStart" /\ Asked(m) /\ runlevel = "setup" /\ Quiet
    BY <1>1, AskedFacts, AnsweredFacts DEF Testing, Working
  <1>5. Stopping => m = "remoteStop" /\ Asked(m)
    BY <1>1, AskedFacts, AnsweredFacts DEF Stopping
  <1>6. Ending => m = "remoteTearDown" /\ calls = <<m>> /\ busy
    BY <1>1, Single DEF Ending
  <1> QED
    BY <1>2, <1>3, <1>4, <1>5, <1>6 DEF Healthy

\* The program goes while the runner waits for it, and nothing is left open.
LEMMA LeavesQuietly ==
    ASSUME RInv, Healthy, Ending, busy, process = "connected", calls = <<>>,
           NEW code \in {0, 1}, Leave(code), NArgs > 0 => code = 0,
           UNCHANGED <<remoteVars, runnerVars>>
    PROVE  Healthy'
  <1>1. inbox \in Seq(Messages)
    BY DEF RInv, TypeOK, LinkTypes
  <1>2. inbox' = inbox \o <<Left>> \o Errors(<<>>)
    BY Single DEF Leave
  <1>3. inbox' = Append(inbox, Left)
    <2>1. Append(inbox, Left) = inbox \o <<Left>> /\ Append(inbox, Left) \in Seq(Messages)
      BY <1>1, MessageTypes, AppendProperties
    <2>2. Errors(<<>>) = <<>>
      BY NoErrors
    <2> QED
      BY <1>2, <2>1, <2>2, ConcatEmptySeq
  <1>4. \A k \in DOMAIN inbox' : inbox'[k] \in {Reply("remoteTearDown", TRUE), Left}
    BY <1>1, <1>3, MessageTypes, AppendedOne DEF Ending
  <1>5. /\ process' = "exited" /\ exitCode' = code /\ calls' = <<>> /\ pending' = pending
        /\ UNCHANGED <<runlevel, exiting, main, worker, thread>>
        /\ UNCHANGED <<launched, remote, listening, stopping, iteration, consumed, args>>
        /\ UNCHANGED <<pollTimer, busy, dones, normalExit, filed>>
    BY DEF Leave, remoteVars, runnerVars, argVars, timerVars, historyVars
  <1>6. Ending'
    BY <1>4, <1>5 DEF Ending, Quiet, Waiting
  <1> QED
    BY <1>5, <1>6 DEF Healthy

-----------------------------------------------------------------------------
(* Steps of the program when nothing goes wrong.                           *)

LEMMA ProgramHealthy ==
    ASSUME RInv, faults = {}, Healthy, RemoteNext, UNCHANGED <<faults, runnerVars>>
    PROVE  Healthy'
  <1>0. /\ inbox \in Seq(Messages) /\ exiting \in BOOLEAN /\ thread \in BOOLEAN
        /\ run \in Nat /\ iteration \in Nat
    BY NArgsAssumption
    DEF RInv, TypeOK, LinkTypes, RemoteTypes, RunnerTypes, NArgsAssumption
  <1>1. /\ UNCHANGED <<launched, remote, listening, stopping, iteration, consumed, args>>
        /\ UNCHANGED <<pollTimer, busy, dones, normalExit, filed>>
    BY DEF runnerVars, argVars, timerVars, historyVars
  <1>2. \A kind : kind \notin faults
    OBVIOUS
  <1>3. CASE Connect
    <2>1. /\ process = "starting" /\ process' = "connected"
          /\ inbox' = Append(inbox, Joined)
          /\ UNCHANGED <<exitCode, calls, pending, remoteVars>>
      BY <1>3 DEF Connect, Emit
    <2>2. Booting /\ launched = "yes" /\ inbox = <<>> /\ dones = 0
      BY <2>1 DEF Healthy, Booting, SettingUp, Testing, Stopping, Ending, Alive, RInv, LinkBook
    <2>3. inbox' = <<Joined>>
      BY <2>1, <2>2, Single
    <2>4. Booting'
      BY <1>1, <2>1, <2>2, <2>3 DEF Booting, Quiet, remoteVars
    <2> QED
      BY <1>1, <2>2, <2>4 DEF Healthy, Booting, Ending
  <1>4. CASE HandleSetUp
    <2>1. Serving("remoteSetUp")
      BY <1>4 DEF HandleSetUp
    <2>2. SettingUp /\ Asked("remoteSetUp") /\ runlevel = "idle" /\ dones = 0
      BY <2>1, NextCall
    <2>3. /\ Answer(TRUE) /\ runlevel' = "setup" /\ run' = 1
          /\ UNCHANGED <<process, pending, exiting, main, thread, worker>>
      BY <1>2, <1>4, <2>1, <2>2 DEF HandleSetUp, Serving
    <2>4. Answered("remoteSetUp")' /\ Tail(inbox') = <<>>
      BY <2>2, <2>3, AnswersIt
    <2>5. SettingUp'
      BY <1>1, <2>2, <2>3, <2>4 DEF SettingUp, Alive, Quiet
    <2> QED
      BY <1>1, <2>2, <2>5 DEF Healthy, SettingUp, Alive, Ending
  <1>5. CASE HandleStart
    <2>1. Serving("remoteStart")
      BY <1>5 DEF HandleStart
    <2>2. Testing /\ Asked("remoteStart") /\ runlevel = "setup" /\ Quiet /\ dones = 0
      BY <2>1, NextCall
    <2>3. /\ main' = "spawned" /\ worker' = "testing" /\ workerRun' = run
          /\ UNCHANGED <<calls, inbox, runlevel, run, exiting, thread, process, pending>>
      BY <1>5, <2>1 DEF HandleStart, Serving
    <2>4. Testing'
      BY <1>1, <2>2, <2>3 DEF Testing, Alive, Quiet, Asked
    <2> QED
      BY <1>1, <2>2, <2>4 DEF Healthy, Testing, Alive, Ending
  <1>6. CASE HandleStartRefused
    <2>1. Serving("remoteStart")
      BY <1>6 DEF HandleStartRefused
    <2>2. Testing /\ Asked("remoteStart") /\ runlevel = "setup" /\ Quiet
      BY <2>1, NextCall
    <2> QED
      BY <1>2, <1>6, <2>2 DEF HandleStartRefused, Quiet
  <1>7. CASE StartReturns
    <2>1. /\ main = "spawned" /\ main' = "loop" /\ thread' = TRUE /\ runlevel' = "started"
          /\ Answer(TRUE)
          /\ UNCHANGED <<process, pending, run, exiting, worker, workerRun>>
      BY <1>7 DEF StartReturns
    <2>2. Testing /\ Asked("remoteStart") /\ worker = "testing" /\ workerRun = run /\ dones = 0
      BY <2>1 DEF Healthy, Booting, SettingUp, Testing, Stopping, Ending, Working, Quiet
    <2>3. Answered("remoteStart")' /\ Len(inbox') = 1 /\ DOMAIN inbox' = {1} /\ calls' = <<>>
      BY <2>1, <2>2, AnswersIt
    <2>4. Reports(1, FALSE)'
      BY <2>3 DEF Reports
    <2>5. Working(1)'
      BY <2>1, <2>2, <2>3, <2>4 DEF Working
    <2>6. Testing'
      BY <1>1, <2>1, <2>2, <2>3, <2>5 DEF Testing, Alive
    <2> QED
      BY <1>1, <2>2, <2>6 DEF Healthy, Testing, Alive, Ending
  <1>8. CASE HandleStop
    <2>1. Serving("remoteStop")
      BY <1>8 DEF HandleStop
    <2>2. Stopping /\ Asked("remoteStop") /\ dones = 0
      BY <2>1, NextCall
    <2>3. /\ Answer(TRUE)
          /\ IF runlevel = "started"
                THEN runlevel' = "setup" /\ run' = run + 1
                ELSE UNCHANGED <<runlevel, run>>
          /\ UNCHANGED <<process, pending, exiting, main, thread, worker>>
      BY <1>8, <2>1 DEF HandleStop, Serving
    <2>4. Answered("remoteStop")' /\ Tail(inbox') = <<>>
      BY <2>2, <2>3, AnswersIt
    <2>5. Alive' /\ Quiet' /\ consumed' = iteration'
      BY <1>1, <2>2, <2>3 DEF Stopping, Alive, Quiet
    <2>6. \/ iteration > 0 /\ runlevel = "started" /\ run = iteration
          \/ NArgs = 0 /\ runlevel = "idle"
      BY <2>2, AskedFacts, AnsweredFacts DEF Stopping
    <2>7. Stopping'
      BY <1>1, <2>3, <2>4, <2>5, <2>6 DEF Stopping
    <2> QED
      BY <1>1, <2>2, <2>7 DEF Healthy, Stopping, Alive, Ending
  <1>9. CASE HandleTearDown
    <2>1. Serving("remoteTearDown")
      BY <1>9 DEF HandleTearDown
    <2>2. Ending /\ calls = <<"remoteTearDown">> /\ process = "connected" /\ busy
      BY <2>1, NextCall DEF Serving
    <2>3. /\ calls' = Tail(calls) /\ inbox' = Append(inbox, Reply("remoteTearDown", TRUE))
          /\ IF runlevel = "setup"
                THEN runlevel' = "idle" /\ exiting' = TRUE
                ELSE UNCHANGED <<runlevel, exiting>>
          /\ UNCHANGED <<process, pending, main, thread, worker>>
      BY <1>9, <2>1 DEF HandleTearDown, Serving, Answer
    <2>4. calls' = <<>>
      BY <2>2, <2>3, Single
    <2>5. exiting' <=> NArgs > 0
      BY <2>2, <2>3, Single, NArgsAssumption DEF Ending, NArgsAssumption
    <2>6. \A k \in DOMAIN inbox' : inbox'[k] \in {Reply("remoteTearDown", TRUE), Left}
      BY <1>0, <2>2, <2>3, MessageTypes, AppendedOne DEF Ending, Methods
    <2>7. Ending'
      BY <1>1, <2>2, <2>3, <2>4, <2>5, <2>6 DEF Ending, Quiet, Waiting
    <2> QED
      BY <1>1, <2>2, <2>7 DEF Healthy, Booting, SettingUp, Testing, Stopping, Ending, Alive
  <1>10. CASE Exit
    <2>1. process = "connected" /\ exiting /\ Leave(0) /\ UNCHANGED remoteVars
      BY <1>10 DEF Exit
    <2>2. Ending /\ busy /\ dones = 0 /\ normalExit = "unset" /\ calls = <<>>
      BY <2>1 DEF Healthy, Booting, SettingUp, Testing, Stopping, Ending, Alive
    <2> QED
      BY <1>1, <2>1, <2>2, LeavesQuietly
  <1>11. CASE WorkerStep \/ WorkerHangs
    <2>1. main = "loop" /\ worker \in {"testing", "returning"}
      BY <1>2, <1>11
      DEF WorkerStep, WorkerHangs, WorkerValidates, WorkerDone, WorkerReturns, WorkerRuns
    <2>2. /\ Testing /\ worker = "testing" /\ thread /\ workerRun = run /\ dones = 0
          /\ runlevel = "started" /\ calls = <<>>
          /\ \/ Answered("remoteStart") /\ Reports(1, FALSE)
             \/ pending = <<>> /\ Reports(0, FALSE)
      BY <2>1 DEF Healthy, Booting, SettingUp, Testing, Stopping, Ending, Working, Quiet
    <2>3. UNCHANGED <<process, exitCode, calls, pending, runlevel, run, exiting, main, workerRun>>
      BY <1>11
      DEF WorkerStep, WorkerHangs, WorkerValidates, WorkerDone, WorkerReturns, WorkerRuns
    <2>4. ASSUME NEW ended \in BOOLEAN, NEW m \in Messages,
                 m = IF ended THEN Done ELSE Validate(iteration),
                 inbox' = Append(inbox, m)
          PROVE  \/ Answered("remoteStart")' /\ Reports(1, ended)'
                 \/ pending' = <<>> /\ Reports(0, ended)'
      <3>1. CASE Answered("remoteStart") /\ Reports(1, FALSE)
        BY <1>0, <1>1, <2>3, <2>4, <3>1, ReportsMore DEF Answered
      <3>2. CASE pending = <<>> /\ Reports(0, FALSE)
        BY <1>0, <1>1, <2>3, <2>4, <3>2, ReportsMore
      <3> QED
        BY <2>2, <3>1, <3>2
    <2>5. run = iteration
      BY <2>2 DEF Testing
    <2>6. CASE WorkerValidates
      <3>1. inbox' = Append(inbox, Validate(iteration)) /\ UNCHANGED <<worker, thread>>
        BY <2>2, <2>5, <2>6 DEF WorkerValidates, Emit
      <3>2. \/ Answered("remoteStart")' /\ Reports(1, FALSE)'
            \/ pending' = <<>> /\ Reports(0, FALSE)'
        BY <1>0, <2>4, <3>1, MessageTypes
      <3>3. Testing'
        BY <1>1, <2>1, <2>2, <2>3, <3>1, <3>2 DEF Testing, Working, Alive
      <3> QED
        BY <1>1, <2>2, <3>3 DEF Healthy, Testing, Alive, Ending
    <2>7. CASE WorkerDone
      <3>1. inbox' = Append(inbox, Done) /\ worker' = "none" /\ thread' = FALSE
        BY <1>2, <2>7 DEF WorkerDone, Emit
      <3>2. \/ Answered("remoteStart")' /\ Reports(1, TRUE)'
            \/ pending' = <<>> /\ Reports(0, TRUE)'
        BY <1>0, <2>4, <3>1, MessageTypes
      <3>3. Testing'
        BY <1>1, <2>1, <2>2, <2>3, <3>1, <3>2 DEF Testing, Working, Alive
      <3> QED
        BY <1>1, <2>2, <3>3 DEF Healthy, Testing, Alive, Ending
    <2> QED
      BY <1>2, <1>11, <2>2, <2>6, <2>7 DEF WorkerStep, WorkerHangs, WorkerReturns, WorkerRuns
  <1>12. CASE Crash
    BY <1>2, <1>12 DEF Crash
  <1> QED
    BY <1>3, <1>4, <1>5, <1>6, <1>7, <1>8, <1>9, <1>10, <1>11, <1>12
    DEF RemoteNext, RemoteStep

LEMMA KillHealthy ==
    ASSUME RInv, faults = {}, Healthy, Kill, UNCHANGED <<faults, remoteVars, runnerVars>>
    PROVE  Healthy'
  <1>1. /\ calls = <<>> /\ ~exiting /\ busy /\ Leave(1)
        /\ process \in {"starting", "connected"} /\ exiting \in BOOLEAN
    BY DEF Kill, RInv, TypeOK, RemoteTypes
  <1>2. Ending /\ dones = 0 /\ normalExit = "unset" /\ process = "connected" /\ NArgs = 0
    <2>1. Ending /\ dones = 0 /\ normalExit = "unset"
      BY <1>1 DEF Healthy
    <2>2. calls # <<"remoteTearDown">>
      BY <1>1, Single
    <2>3. process # "exited"
      BY <1>1
    <2>4. process = "connected" /\ (exiting <=> NArgs > 0)
      BY <2>1, <2>2, <2>3 DEF Ending
    <2> QED
      BY <1>1, <2>1, <2>4, NArgsAssumption DEF NArgsAssumption
  <1>3. UNCHANGED <<busy, dones, normalExit, filed>>
    BY DEF runnerVars, historyVars
  <1> QED
    BY <1>1, <1>2, <1>3, LeavesQuietly

-----------------------------------------------------------------------------
(* Steps of the runner when nothing goes wrong.                            *)

\* At which stage the runner takes a message.
LEMMA NextMessage ==
    ASSUME RInv, Healthy, Idle, inbox # <<>>
    PROVE  /\ \/ Booting /\ inbox = <<Joined>> /\ process = "connected" /\ dones = 0
              \/ SettingUp /\ Answered("remoteSetUp") /\ Tail(inbox) = <<>>
                           /\ runlevel = "setup" /\ run = 1 /\ dones = 0
              \/ Testing /\ Answered("remoteStart") /\ Working(1) /\ dones = 0
              \/ /\ Testing /\ pending = <<>> /\ Working(0) /\ dones = 0
                 /\ Head(inbox) \in {Done, Validate(iteration)}
              \/ Stopping /\ Answered("remoteStop") /\ Tail(inbox) = <<>> /\ dones = 0
              \/ /\ Ending /\ dones = 1 /\ process = "exited"
                 /\ Head(inbox) \in {Reply("remoteTearDown", TRUE), Left}
           /\ launched = "yes" /\ ~busy
  <1>1. inbox \in Seq(Messages) /\ launched = "yes" /\ ~busy
    BY DEF RInv, TypeOK, LinkTypes, Idle
  <1>2. Booting => inbox = <<Joined>> /\ process = "connected"
    BY <1>1 DEF Booting
  <1>3. SettingUp => Answered("remoteSetUp") /\ Tail(inbox) = <<>> /\ runlevel = "setup" /\ run = 1
    BY AskedFacts DEF SettingUp
  <1>4. Testing => \/ Answered("remoteStart") /\ Working(1)
                   \/ /\ pending = <<>> /\ Working(0)
                      /\ Head(inbox) \in {Done, Validate(iteration)}
    <2>1. Testing => \/ Answered("remoteStart") /\ Working(1)
                     \/ pending = <<>> /\ Working(0)
      BY AskedFacts DEF Testing
    <2>2. ASSUME NEW ended \in BOOLEAN, Reports(0, ended)
          PROVE  Head(inbox) \in {Done, Validate(iteration)}
      <3>1. 1 \in DOMAIN inbox /\ Head(inbox) = inbox[1]
        BY <1>1, Rest
      <3> QED
        BY <2>2, <3>1 DEF Reports
    <2> QED
      BY <2>1, <2>2 DEF Working
  <1>5. Stopping => Answered("remoteStop") /\ Tail(inbox) = <<>>
    BY AskedFacts DEF Stopping
  <1>6. Ending /\ ~busy =>
           process = "exited" /\ Head(inbox) \in {Reply("remoteTearDown", TRUE), Left}
    BY <1>1, Rest DEF Ending
  <1> QED
    BY <1>1, <1>2, <1>3, <1>4, <1>5, <1>6 DEF Healthy

\* ... and at which one an answer to the call of m.
LEMMA NextAnswer ==
    ASSUME RInv, Healthy, Idle, NEW m, NEW t \in {"reply", "error"}, Answers(m, t)
    PROVE  /\ t = "reply" /\ Head(inbox).ok /\ Tail(pending) = <<>> /\ calls = <<>>
           /\ m = "remoteSetUp" => /\ SettingUp /\ Tail(inbox) = <<>> /\ dones = 0
                                   /\ runlevel = "setup" /\ run = 1
           /\ m = "remoteStart" => Testing /\ Working(1) /\ dones = 0
           /\ m = "remoteStop" => Stopping /\ Answered(m) /\ Tail(inbox) = <<>> /\ dones = 0
           /\ m = "remoteTearDown" => Ending /\ dones = 1 /\ process = "exited"
           /\ m \in Methods
  <1>1. /\ inbox # <<>> /\ Head(inbox).type = t /\ pending # <<>>
        /\ Head(pending) = [method |-> m, live |-> TRUE]
    BY DEF Answers, Incoming
  <1>2. ASSUME NEW n, Answered(n)
        PROVE  t = "reply" /\ Head(inbox).ok /\ Tail(pending) = <<>> /\ calls = <<>> /\ m = n
    BY <1>1, <1>2, AnsweredFacts, WaitingFor
  <1>3. ASSUME Ending, process = "exited", Head(inbox) \in {Reply("remoteTearDown", TRUE), Left}
        PROVE  /\ t = "reply" /\ Head(inbox).ok /\ Tail(pending) = <<>> /\ calls = <<>>
               /\ m = "remoteTearDown"
    <2>1. calls = <<>> /\ pending = Waiting("remoteTearDown")
      BY <1>1, <1>3 DEF Ending
    <2>2. t = "reply" /\ Head(inbox).ok
      BY <1>1, <1>3, MessageFields
    <2> QED
      BY <1>1, <2>1, <2>2, WaitingFor
  <1>4. ~Booting
    BY <1>1 DEF Booting
  <1>5. ~(pending = <<>> /\ Working(0))
    BY <1>1
  <1>6. \/ SettingUp /\ Answered("remoteSetUp") /\ Tail(inbox) = <<>>
                     /\ runlevel = "setup" /\ run = 1 /\ dones = 0
        \/ Testing /\ Answered("remoteStart") /\ Working(1) /\ dones = 0
        \/ Stopping /\ Answered("remoteStop") /\ Tail(inbox) = <<>> /\ dones = 0
        \/ /\ Ending /\ dones = 1 /\ process = "exited"
           /\ Head(inbox) \in {Reply("remoteTearDown", TRUE), Left}
    BY <1>1, <1>4, <1>5, NextMessage
  <1>7. CASE SettingUp /\ Answered("remoteSetUp") /\ Tail(inbox) = <<>>
                       /\ runlevel = "setup" /\ run = 1 /\ dones = 0
    BY <1>7, <1>2 DEF Methods
  <1>8. CASE Testing /\ Answered("remoteStart") /\ Working(1) /\ dones = 0
    BY <1>8, <1>2 DEF Methods
  <1>9. CASE Stopping /\ Answered("remoteStop") /\ Tail(inbox) = <<>> /\ dones = 0
    BY <1>9, <1>2 DEF Methods
  <1>10. CASE /\ Ending /\ dones = 1 /\ process = "exited"
              /\ Head(inbox) \in {Reply("remoteTearDown", TRUE), Left}
    BY <1>10, <1>3 DEF Methods
  <1> QED
    BY <1>6, <1>7, <1>8, <1>9, <1>10

\* ... and at which one a signal.
LEMMA NextSignal ==
    ASSUME RInv, Healthy, Idle, NEW t, Incoming(t)
    PROVE  /\ t = "joined" => Booting /\ inbox = <<Joined>> /\ process = "connected" /\ dones = 0
           /\ t = "done" => /\ Testing /\ pending = <<>> /\ Working(0) /\ dones = 0
                            /\ Head(inbox) = Done
           /\ t = "validate" => /\ Testing /\ pending = <<>> /\ Working(0) /\ dones = 0
                                /\ Head(inbox) = Validate(iteration)
           /\ t = "left" => Ending /\ dones = 1
           /\ t \in {"reply", "error"} => pending = <<>> \/ Head(pending).live
           /\ launched = "yes" /\ ~busy
  <1>1. inbox # <<>> /\ Head(inbox).type = t
    BY DEF Incoming
  <1>2. Booting /\ inbox = <<Joined>> => t = "joined"
    BY <1>1, MessageFields, Single
  <1>3. ASSUME NEW n, Answered(n)
        PROVE  t = "reply" /\ Head(pending).live
    BY <1>1, <1>3, AnsweredFacts, WaitingFor
  <1>4. ASSUME Head(inbox) \in {Done, Validate(iteration)}
        PROVE  /\ t \in {"done", "validate"}
               /\ t = "done" => Head(inbox) = Done
               /\ t = "validate" => Head(inbox) = Validate(iteration)
    BY <1>1, <1>4, MessageFields
  <1>5. ASSUME Ending, Head(inbox) \in {Reply("remoteTearDown", TRUE), Left}
        PROVE  t \in {"reply", "left"} /\ (pending = <<>> \/ Head(pending).live)
    <2>1. t \in {"reply", "left"}
      BY <1>1, <1>5, MessageFields
    <2>2. pending = <<>> \/ pending = Waiting("remoteTearDown")
      BY <1>5 DEF Ending
    <2> QED
      BY <2>1, <2>2, WaitingFor
  <1>6. launched = "yes" /\ ~busy
    BY DEF Idle
  <1> QED
    BY <1>1, <1>2, <1>3, <1>4, <1>5, <1>6, NextMessage

\* The program is on the bus.
LEMMA NewRemoteTestHealthy ==
    ASSUME RInv, faults = {}, Healthy, NewRemoteTest, UNCHANGED remoteVars
    PROVE  Healthy'
  <1>1. /\ Booting /\ inbox = <<Joined>> /\ process = "connected"
        /\ dones = 0 /\ launched = "yes" /\ ~busy
    BY NextSignal DEF NewRemoteTest
  <1>2. /\ remote' = TRUE
        /\ \/ args # 0 /\ Exchange(Tail(inbox), pending, <<"remoteSetUp">>)
           \/ args = 0 /\ Exchange(Tail(inbox), pending, <<"remoteStop">>)
        /\ UNCHANGED <<process, launched, busy, listening, args, consumed, iteration,
                       stopping, normalExit, dones, filed>>
        /\ UNCHANGED <<exiting, main, worker, thread, runlevel>>
    BY DEF NewRemoteTest, Unchanged, argVars, historyVars, remoteVars
  <1>3. Tail(inbox) = <<>> /\ pending = <<>> /\ calls = <<>>
    BY <1>1, Single DEF Booting
  <1>4. CASE args # 0 /\ Exchange(Tail(inbox), pending, <<"remoteSetUp">>)
    <2>1. Asked("remoteSetUp")'
      BY <1>1, <1>3, <1>4, OneCall DEF Asked, Methods, Waiting
    <2>2. args = 1 /\ consumed = 1
      BY <1>1, <1>4 DEF Booting
    <2>3. SettingUp'
      BY <1>1, <1>2, <2>1, <2>2 DEF SettingUp, Alive, Quiet, Booting
    <2> QED
      BY <1>1, <1>2, <2>3 DEF Healthy, Ending, Booting
  <1>5. CASE args = 0 /\ Exchange(Tail(inbox), pending, <<"remoteStop">>)
    <2>1. Asked("remoteStop")'
      BY <1>1, <1>3, <1>5, OneCall DEF Asked, Methods, Waiting
    <2>2. consumed = 0 /\ NArgs = 0
      BY <1>1, <1>5 DEF Booting
    <2>3. Stopping'
      BY <1>1, <1>2, <2>1, <2>2 DEF Stopping, Alive, Quiet, Booting
    <2> QED
      BY <1>1, <1>2, <2>3 DEF Healthy, Ending, Booting
  <1> QED
    BY <1>2, <1>4, <1>5

\* remoteSetUp was answered: the first iteration starts.
LEMMA SetUpReplyHealthy ==
    ASSUME RInv, faults = {}, Healthy, SetUpReply, UNCHANGED remoteVars
    PROVE  Healthy' /\ iteration = 0 /\ iteration' = 1 /\ NArgs > 0 /\ ~stopping'
  <1>1. /\ SettingUp /\ Tail(inbox) = <<>> /\ dones = 0 /\ runlevel = "setup" /\ run = 1
        /\ Tail(pending) = <<>> /\ calls = <<>> /\ launched = "yes" /\ ~busy
    BY NextAnswer DEF SetUpReply, Idle
  <1>2. remote /\ args = 1 /\ consumed = 1 /\ iteration = 0 /\ process = "connected"
    BY <1>1 DEF SettingUp, Alive
  <1>3. /\ stopping' = FALSE /\ iteration' = 1 /\ normalExit' = "unset"
        /\ Exchange(Tail(inbox), Tail(pending), <<"remoteStart">>)
        /\ UNCHANGED <<process, launched, busy, remote, listening, consumed, dones, filed>>
        /\ UNCHANGED <<exiting, main, worker, thread, runlevel, run>>
    BY <1>2 DEF SetUpReply, Start, IfRemote, Unchanged, argVars, historyVars, remoteVars
  <1>4. Asked("remoteStart")'
    BY <1>1, <1>2, <1>3, OneCall DEF Asked, Methods, Waiting
  <1>5. Testing'
    BY <1>1, <1>2, <1>3, <1>4 DEF Testing, SettingUp, Alive, Quiet
  <1>6. NArgs > 0
    BY <1>2, NArgsAssumption DEF RInv, TypeOK, RunnerTypes, NArgsAssumption
  <1> QED
    BY <1>1, <1>2, <1>3, <1>5, <1>6 DEF Healthy

\* remoteStop was answered, and arguments are left: the next iteration starts.
LEMMA StopReplyNextHealthy ==
    ASSUME RInv, faults = {}, Healthy, StopReplyNext, UNCHANGED remoteVars
    PROVE  /\ Healthy' /\ 0 < iteration /\ iteration < NArgs /\ iteration' = iteration + 1
           /\ ~stopping /\ ~stopping'
  <1>1. /\ Stopping /\ Tail(inbox) = <<>> /\ dones = 0 /\ Tail(pending) = <<>> /\ calls = <<>>
        /\ Answered("remoteStop") /\ launched = "yes" /\ ~busy /\ consumed < NArgs
    BY NextAnswer DEF StopReplyNext, Idle
  <1>2. /\ remote /\ consumed = iteration /\ process = "connected" /\ ~stopping
        /\ iteration > 0 /\ runlevel = "setup" /\ run = iteration + 1
        /\ iteration \in Nat
    BY <1>1, AskedFacts, NArgsAssumption
    DEF Stopping, Alive, RInv, TypeOK, RunnerTypes, NArgsAssumption
  <1>3. /\ stopping' = FALSE /\ iteration' = iteration + 1 /\ normalExit' = "unset"
        /\ consumed' = consumed + 1
        /\ UNCHANGED <<process, launched, busy, remote, listening, dones, filed>>
        /\ UNCHANGED <<exiting, main, worker, thread, runlevel, run>>
    BY <1>1 DEF StopReplyNext, Start, PrepareArguments, Unchanged, remoteVars
  <1>4. Exchange(Tail(inbox), Tail(pending), <<"remoteStart">>)
    BY <1>1, <1>2 DEF StopReplyNext, Start, IfRemote
  <1>5. Asked("remoteStart")'
    BY <1>1, <1>2, <1>3, <1>4, OneCall DEF Asked, Methods, Waiting
  <1>6. Testing'
    BY <1>1, <1>2, <1>3, <1>5 DEF Testing, Stopping, Alive, Quiet
  <1> QED
    BY <1>1, <1>2, <1>3, <1>6 DEF Healthy

\* ... and no arguments are left: the test is torn down.
LEMMA StopReplyLastHealthy ==
    ASSUME RInv, faults = {}, Healthy, StopReplyLast, UNCHANGED remoteVars
    PROVE  Healthy' /\ iteration = NArgs /\ ~stopping /\ dones = 0 /\ dones' = 0
  <1>1. /\ Stopping /\ Tail(inbox) = <<>> /\ dones = 0 /\ Tail(pending) = <<>> /\ calls = <<>>
        /\ Answered("remoteStop") /\ launched = "yes" /\ ~busy /\ consumed = NArgs
    BY NextAnswer DEF StopReplyLast, Idle
  <1>2. /\ remote /\ iteration = NArgs /\ process = "connected" /\ ~stopping /\ ~exiting
        /\ runlevel = IF NArgs = 0 THEN "idle" ELSE "setup"
        /\ iteration \in Nat
    BY <1>1, AskedFacts, NArgsAssumption
    DEF Stopping, Alive, RInv, TypeOK, RunnerTypes, NArgsAssumption
  <1>3. hasProcess
    BY <1>1, <1>2 DEF RInv, ExitBook
  <1>4. /\ Exchange(Tail(inbox), Tail(pending), <<"remoteTearDown">>)
        /\ listening' = FALSE /\ pollTimer' = FALSE /\ busy' = TRUE
        /\ stopping' = TRUE
        /\ consumed' = consumed
        /\ UNCHANGED <<process, exitCode, launched, iteration, normalExit, dones, filed>>
        /\ UNCHANGED <<exiting, main, worker, thread, runlevel>>
    BY <1>1, <1>2, <1>3 
    DEF StopReplyLast, TearDown, PrepareArguments, IfRemote, Unchanged, remoteVars
  <1>5. pending' = Waiting("remoteTearDown") /\ calls' = <<"remoteTearDown">> /\ inbox' = <<>>
    BY <1>1, <1>2, <1>4, OneCall DEF Methods
  <1>6. Ending'
    BY <1>1, <1>2, <1>4, <1>5 DEF Ending, Stopping, Quiet, Waiting
  <1> QED
    BY <1>1, <1>2, <1>4, <1>6 DEF Healthy

\* The messages of an iteration in progress, and the end of its run.
LEMMA WorkingHealthy ==
    ASSUME RInv, faults = {}, Healthy, StartReply \/ RemoteValidate \/ RemoteDone,
           UNCHANGED remoteVars
    PROVE  Healthy'
  <1>0. inbox \in Seq(Messages) /\ iteration \in Nat
    BY NArgsAssumption DEF RInv, TypeOK, LinkTypes, RunnerTypes, NArgsAssumption
  <1>1. /\ inbox # <<>> /\ Testing /\ dones = 0 /\ launched = "yes" /\ ~busy
        /\ \/ StartReply /\ Tail(pending) = <<>> /\ Working(1)
           \/ ~StartReply /\ pending = <<>> /\ Working(0)
    <2>1. CASE StartReply
      BY <2>1, NextAnswer DEF StartReply, Answers, Incoming, Idle
    <2>2. CASE ~StartReply
      BY <2>2, NextSignal DEF RemoteValidate, RemoteDone, Incoming
    <2> QED
      BY <2>1, <2>2
  <1>2. /\ UNCHANGED <<launched, process, remote, listening, stopping, iteration, consumed>>
        /\ UNCHANGED <<exiting, main, worker, thread, runlevel, run, workerRun>>
        /\ UNCHANGED <<busy, dones, normalExit>>
    BY DEF StartReply, RemoteValidate, RemoteDone, Unchanged, argVars, historyVars, remoteVars
  <1>3. process = "connected" /\ remote /\ calls = <<>> /\ ~stopping
    BY <1>1 DEF Testing, Alive, Working
  <1>7. LinkTypes /\ Tail(inbox) \in Seq(Messages) /\ <<>> \in Seq(Expected)
    BY <1>0, <1>1, Rest DEF RInv, TypeOK
  <1>4. CASE StartReply
    <2>1. Exchange(Tail(inbox), <<>>, <<>>) /\ filed' = filed
      BY <1>1, <1>4 DEF StartReply, historyVars
    <2>2. pending' = <<>> /\ calls' = <<>> /\ inbox' = Tail(inbox)
      BY <1>3, <1>7, <2>1, NoCall
    <2>3. Working(1) => Working(0)'
      BY <1>0, <1>1, <1>2, <2>2, ReportsLess DEF Working
    <2>4. Working(1)
      BY <1>1, <1>4
    <2>5. Testing'
      BY <1>1, <1>2, <2>2, <2>3, <2>4 DEF Testing, Alive
    <2> QED
      BY <1>1, <1>2, <2>1, <2>5, <1>3 DEF Healthy, Ending
  <1>5. CASE RemoteValidate
    <2>1. /\ Exchange(Tail(inbox), pending, <<>>) /\ Incoming("validate") /\ Idle
          /\ filed' = filed \cup {<<Head(inbox).run, iteration>>}
      BY <1>5 DEF RemoteValidate
    <2>2. pending = <<>> /\ Working(0) /\ Head(inbox) = Validate(iteration)
      BY <2>1, NextSignal
    <2>7. Exchange(Tail(inbox), <<>>, <<>>)
      BY <2>1, <2>2
    <2>3. pending' = <<>> /\ calls' = <<>> /\ inbox' = Tail(inbox)
      BY <1>3, <1>7, <2>7, NoCall
    <2>4. Working(0)'
      BY <1>0, <1>1, <1>2, <2>2, <2>3, ReportsLess DEF Working
    <2>5. Testing'
      BY <1>1, <1>2, <2>3, <2>4 DEF Testing, Alive
    <2>6. \A f \in filed' : f[1] = f[2]
      BY <2>1, <2>2, MessageFields DEF Healthy
    <2> QED
      BY <1>1, <1>2, <2>5, <2>6, <1>3 DEF Healthy, Ending
  <1>6. CASE RemoteDone
    <2>1. /\ Exchange(Tail(inbox), pending, <<"remoteStop">>) /\ Incoming("done") /\ Idle
          /\ filed' = filed
      BY <1>3, <1>6 DEF RemoteDone, StopFrom, IfRemote, historyVars
    <2>2. pending = <<>> /\ Working(0) /\ Head(inbox) = Done
      BY <2>1, NextSignal
    <2>3. pending' = Waiting("remoteStop") /\ calls' = <<"remoteStop">> /\ inbox' = Tail(inbox)
      BY <1>3, <2>1, <2>2, OneCall DEF Methods
    <2>4. /\ worker = "none" /\ ~thread /\ inbox' = <<>>
          /\ runlevel = "started" /\ main = "loop"
      BY <1>0, <1>1, <1>2, <2>2, <2>3, ReportsLess DEF Working
    <2>5. Stopping'
      BY <1>1, <1>2, <2>3, <2>4 DEF Stopping, Testing, Alive, Quiet, Asked, Waiting
    <2> QED
      BY <1>1, <1>2, <2>1, <2>5, <1>3 DEF Healthy, Ending
  <1> QED
    BY <1>4, <1>5, <1>6

\* What arrives once the test is done.
LEMMA LateMessagesHealthy ==
    ASSUME RInv, faults = {}, Healthy, RemovedRemoteTest \/ IgnoredReply, UNCHANGED remoteVars
    PROVE  Healthy'
  <1>0. inbox \in Seq(Messages) /\ inbox # <<>> /\ Idle /\ LinkTypes
    BY DEF RInv, TypeOK, LinkTypes, RemovedRemoteTest, IgnoredReply, Answers, Incoming
  <1>1. /\ Ending /\ dones = 1 /\ process = "exited"
        /\ \E expected \in {<<>>, Waiting("remoteTearDown")} :
              Exchange(Tail(inbox), expected, <<>>)
    <2>1. CASE RemovedRemoteTest
      <3>1. Ending /\ dones = 1 /\ Exchange(Tail(inbox), pending, <<>>)
        BY <2>1, NextSignal DEF RemovedRemoteTest
      <3> QED
        BY <1>0, <3>1 DEF Ending, Idle
    <2>2. CASE IgnoredReply
      <3>1. \/ Incoming("reply") \/ Incoming("error")
        BY <2>2 DEF IgnoredReply, Answers
      <3>2. ~(pending # <<>> /\ ~Head(pending).live)
        BY <1>0, <3>1, NextSignal
      <3>3. \/ Answers("remoteTearDown", "reply")
            \/ Answers("remoteStop", "error")
            \/ Answers("remoteTearDown", "error")
        BY <2>2, <3>2 DEF IgnoredReply
      <3>4. Ending /\ dones = 1 /\ process = "exited" /\ Tail(pending) = <<>>
        BY <1>0, <3>3, NextAnswer
      <3> QED
        BY <2>2, <3>4 DEF IgnoredReply
    <2> QED
      BY <2>1, <2>2
  <1>2. /\ UNCHANGED <<launched, process, exitCode, listening, stopping, iteration, consumed>>
        /\ UNCHANGED <<exiting, main, worker, thread, runlevel, pollTimer>>
        /\ UNCHANGED <<busy, dones, normalExit, filed>>
    BY DEF RemovedRemoteTest, IgnoredReply, Unchanged, timerVars, argVars, historyVars, remoteVars
  <1>3. calls = <<>>
    BY <1>0, <1>1, Single DEF Ending, Idle
  <1>4. /\ Tail(inbox) \in Seq(Messages)
        /\ \A k \in DOMAIN Tail(inbox) : Tail(inbox)[k] \in {Reply("remoteTearDown", TRUE), Left}
    BY <1>0, <1>1, Rest DEF Ending
  <1>5. <<>> \in Seq(Expected) /\ Waiting("remoteTearDown") \in Seq(Expected)
    BY DEF Waiting, Expected, Methods
  <1>6. pending' \in {<<>>, Waiting("remoteTearDown")} /\ calls' = <<>> /\ inbox' = Tail(inbox)
    BY <1>0, <1>1, <1>3, <1>4, <1>5, NoCall
  <1>7. Ending'
    BY <1>1, <1>2, <1>4, <1>6 DEF Ending, Quiet, Waiting
  <1> QED
    BY <1>1, <1>2, <1>7 DEF Healthy

\* The process is reaped and the test done.
LEMMA KillEndsHealthy ==
    ASSUME RInv, faults = {}, Healthy, KillEnds, UNCHANGED remoteVars
    PROVE  Healthy' /\ stopping /\ iteration = NArgs /\ dones = 0 /\ dones' = 1
  <1>1. /\ Ending /\ dones = 0 /\ normalExit = "unset" /\ process = "exited"
    BY DEF KillEnds, AfterKill, Healthy
  <1>2. /\ busy' = FALSE /\ dones' = 1
        /\ normalExit' = IF exitCode = 0 THEN "yes" ELSE "no"
        /\ UNCHANGED <<process, exitCode, calls, pending, inbox>>
        /\ UNCHANGED <<launched, listening, stopping, iteration, consumed, pollTimer, filed>>
        /\ UNCHANGED <<exiting, main, worker, thread, runlevel>>
    BY <1>1 DEF KillEnds, AfterKill, FinishTearDown, linkVars, argVars, remoteVars
  <1>3. Ending'
    BY <1>1, <1>2 DEF Ending, Quiet, Waiting
  <1>4. NArgs > 0 => normalExit' = "yes"
    BY <1>1, <1>2 DEF Ending
  <1>5. \A f \in filed' : f[1] = f[2]
    BY <1>2 DEF Healthy
  <1>6. stopping /\ iteration = NArgs
    BY <1>1 DEF Ending
  <1> QED
    BY <1>1, <1>2, <1>3, <1>4, <1>5, <1>6 DEF Healthy

\* What else the runner does when nothing goes wrong.
LEMMA LaunchHealthy ==
    ASSUME RInv, faults = {}, Healthy, Run, UNCHANGED remoteVars
    PROVE  Healthy'
  <1>1. Booting /\ dones = 0 /\ inbox = <<>> /\ consumed = 0
    BY DEF Run, Healthy, Booting, SettingUp, Testing, Stopping, Ending, Alive
  <1>2. /\ launched' = "yes" /\ process' = "starting"
        /\ args' = consumed'
        /\ consumed' = IF NArgs = 0 THEN 0 ELSE 1
        /\ UNCHANGED <<calls, pending, inbox, listening, iteration, stopping>>
        /\ UNCHANGED <<exiting, main, worker, thread, runlevel>>
        /\ UNCHANGED <<busy, dones, normalExit, filed>>
    BY <1>1, NArgsAssumption
    DEF Run, PrepareArguments, NArgsAssumption, historyVars, remoteVars
  <1>3. Booting'
    BY <1>1, <1>2 DEF Booting, Quiet
  <1> QED
    BY <1>1, <1>2, <1>3 DEF Healthy, Booting, Ending

\* What the runner never does when nothing goes wrong.
LEMMA NeverHealthy ==
    ASSUME RInv, faults = {}, Healthy
    PROVE  /\ ~RunFails /\ ~NewRemoteTestLate /\ ~FatalReply /\ ~ReplyTimeout
           /\ ~AsyncSetupTimeout /\ ~TestTimeout /\ ~PollSubProcess /\ ~AbortTest
           /\ ~KillGivesUp
  <1>1. /\ ~RunFails /\ ~ReplyTimeout /\ ~AsyncSetupTimeout /\ ~TestTimeout /\ ~AbortTest
        /\ ~KillGivesUp
    BY DEF RunFails, ReplyTimeout, AsyncSetupTimeout, TestTimeout, AbortTest, KillGivesUp
  <1>2. ~NewRemoteTestLate
    <2> SUFFICES ASSUME NewRemoteTestLate
                 PROVE  FALSE
      OBVIOUS
    <2>1. Booting /\ process = "connected"
      BY NextSignal DEF NewRemoteTestLate
    <2> QED
      BY <2>1 DEF NewRemoteTestLate, Booting
  <1>3. ~FatalReply
    <2> SUFFICES ASSUME FatalReply
                 PROVE  FALSE
      OBVIOUS
    <2>1. PICK m \in {"remoteSetUp", "remoteStart"} :
             \/ Answers(m, "reply") /\ ~Head(inbox).ok
             \/ Answers(m, "error")
      BY DEF FatalReply
    <2>2. Idle
      BY DEF FatalReply
    <2> QED
      BY <2>1, <2>2, NextAnswer
  <1>4. ~PollSubProcess
    <2> SUFFICES ASSUME PollSubProcess
                 PROVE  FALSE
      OBVIOUS
    <2>1. process = "exited" /\ launched = "yes" /\ pollTimer
      BY DEF PollSubProcess, Idle
    <2>2. Ending
      BY <2>1 DEF Healthy, Booting, SettingUp, Testing, Stopping, Alive
    <2> QED
      BY <2>1, <2>2 DEF Ending
  <1> QED
    BY <1>1, <1>2, <1>3, <1>4

-----------------------------------------------------------------------------
(* What holds whenever nothing goes wrong.                                 *)

LEMMA InitHealthy == Init => Healthy
  <1> SUFFICES ASSUME Init
               PROVE  Healthy
    OBVIOUS
  <1>1. Booting
    BY DEF Init, LinkInit, RemoteInit, RunnerInit, Booting, Quiet
  <1> QED
    BY <1>1 DEF Healthy, Init, RunnerInit

LEMMA NextHealthy ==
    ASSUME RInv, Next, faults = {}, Healthy
    PROVE  Healthy' /\ faults' = {}
  <1>1. faults' = {}
    BY DEF Next, Program, Runner, System
  <1>2. CASE Program(RemoteNext)
    BY <1>2, ProgramHealthy DEF Program
  <1>3. CASE System(Kill)
    BY <1>3, KillHealthy DEF System
  <1>5. ~System(DiesLate)
    BY DEF System, DiesLate, RInv, ExitBook
  <1>4. CASE Runner(RunnerNext)
    <2>1. RunnerNext /\ UNCHANGED remoteVars
      BY <1>4 DEF Runner
    <2>2. \/ Run \/ KillEnds \/ NewRemoteTest \/ SetUpReply \/ StopReplyNext \/ StopReplyLast
          \/ StartReply \/ RemoteValidate \/ RemoteDone \/ RemovedRemoteTest \/ IgnoredReply
      BY <2>1, NeverHealthy DEF RunnerNext, RunnerDispatch
    <2>3. CASE Run \/ KillEnds \/ NewRemoteTest \/ SetUpReply
      BY <1>1, <2>1, <2>3, LaunchHealthy, KillEndsHealthy, NewRemoteTestHealthy,
         SetUpReplyHealthy, Zenon
    <2>4. CASE StopReplyNext \/ StopReplyLast
      BY <1>1, <2>1, <2>4, StopReplyNextHealthy, StopReplyLastHealthy, Zenon
    <2>5. CASE StartReply \/ RemoteValidate \/ RemoteDone
      BY <1>1, <2>1, <2>5, WorkingHealthy, Zenon
    <2>6. CASE RemovedRemoteTest \/ IgnoredReply
      BY <1>1, <2>1, <2>6, LateMessagesHealthy, Zenon
    <2> QED
      BY <1>1, <2>2, <2>3, <2>4, <2>5, <2>6
  <1> QED
    BY <1>1, <1>2, <1>3, <1>4, <1>5 DEF Next

LEMMA StutterHealthy ==
    ASSUME Healthy, UNCHANGED vars
    PROVE  Healthy'
  <1>1. /\ UNCHANGED <<launched, process, exitCode, remote, listening, stopping, iteration,
                       consumed, args, pollTimer, busy, dones, normalExit, filed>>
        /\ UNCHANGED <<exiting, main, worker, thread, runlevel, run, workerRun>>
        /\ UNCHANGED <<calls, pending, inbox>>
    BY DEF vars, linkVars, remoteVars, runnerVars, argVars, timerVars, historyVars
  <1>2. /\ Booting' = Booting /\ SettingUp' = SettingUp /\ Testing' = Testing
        /\ Stopping' = Stopping /\ Ending' = Ending
    BY <1>1 DEF Booting, SettingUp, Testing, Stopping, Ending, Working, Reports, Alive, Quiet,
        Asked, Answered, Waiting
  <1> QED
    BY <1>1, <1>2 DEF Healthy

HealthyIfFaultless == RInv /\ (faults = {} => Healthy)

LEMMA AlwaysHealthy == Spec => []HealthyIfFaultless
  <1>1. Init => HealthyIfFaultless
    BY InitRInv, InitHealthy DEF HealthyIfFaultless
  <1>2. ASSUME HealthyIfFaultless, [Next]_vars
        PROVE  HealthyIfFaultless'
    <2>1. RInv' /\ RInv
      BY <1>2, NextKeepsRInv DEF HealthyIfFaultless
    <2>2. faults' = faults
      BY <1>2 DEF Next, Program, Runner, System, vars
    <2>3. CASE faults = {} /\ Next
      BY <1>2, <2>1, <2>3, NextHealthy DEF HealthyIfFaultless
    <2>4. CASE faults = {} /\ UNCHANGED vars
      BY <1>2, <2>1, <2>4, StutterHealthy DEF HealthyIfFaultless
    <2> QED
      BY <1>2, <2>1, <2>2, <2>3, <2>4 DEF HealthyIfFaultless
  <1> QED
    BY <1>1, <1>2, PTL DEF Spec

\* The iterations that were reported as stopped.
LEMMA ReportedStops ==
    ASSUME RInv
    PROVE  reported = IF stopping \/ iteration = 0 THEN iteration ELSE iteration - 1
  <1> DEFINE r == IF stopping \/ iteration = 0 THEN iteration ELSE iteration - 1
             P(n) == /\ \A i \in 1..n : stops[i] > 0
                     /\ n + 1 \in Iterations => stops[n + 1] = 0
  <1>1. /\ iteration \in Iterations /\ iteration \in Nat /\ NArgs \in Nat /\ stopping \in BOOLEAN
        /\ \A i \in Iterations : /\ i \in 1..(iteration - 1) => stops[i] = 1
                                 /\ i > iteration => stops[i] = 0
        /\ stops[iteration] = IF stopping THEN 1 ELSE 0
    BY NArgsAssumption
    DEF RInv, TypeOK, RunnerFlags, RunnerTypes, Iterations, NArgsAssumption, StopBook,
        EachIterationStopsOnce
  <1>2. /\ r \in Iterations
        /\ \A i \in Iterations : i \in 1..r => stops[i] = 1
        /\ \A i \in Iterations : i > r => stops[i] = 0
    BY <1>1 DEF Iterations
  <1>3. P(r)
    BY <1>1, <1>2 DEF Iterations
  <1>4. ASSUME NEW n \in Iterations, P(n)
        PROVE  n = r
    <2>1. CASE n > r
      <3>1. n \in 1..n /\ stops[n] = 0
        BY <1>1, <1>2, <2>1 DEF Iterations
      <3> QED
        BY <1>4, <3>1
    <2>2. CASE n < r
      <3>1. n + 1 \in Iterations /\ n + 1 \in 1..r
        BY <1>1, <1>2, <2>2 DEF Iterations
      <3>2. stops[n + 1] = 1
        BY <1>2, <3>1
      <3> QED
        BY <1>4, <3>1, <3>2
    <2> QED
      BY <1>1, <1>2, <2>1, <2>2 DEF Iterations
  <1> HIDE DEF r
  <1>5. reported = CHOOSE n \in Iterations : P(n)
    BY DEF reported
  <1>6. r \in Iterations /\ P(r)
    BY <1>2, <1>3
  <1> HIDE DEF P
  <1>7. reported = r
    BY <1>4, <1>5, <1>6
  <1> QED
    BY <1>7 DEF r

ReportedIs == reported = IF stopping \/ iteration = 0 THEN iteration ELSE iteration - 1

LEMMA ReportedThen == RInv' => ReportedIs'
  <1>1. RInv => ReportedIs
    BY ReportedStops DEF ReportedIs
  <1> QED
    BY <1>1, PTL

Faultless == RInv /\ faults = {} /\ Healthy

\* What observers of a test in which nothing goes wrong see in one step.
LEMMA NextIsObserved ==
    ASSUME Faultless, Faultless', Next
    PROVE  Lifecycle!Next \/ UNCHANGED <<faults, iteration, reported, dones>>
  <1>0. /\ reported = IF stopping \/ iteration = 0 THEN iteration ELSE iteration - 1
        /\ reported' = IF stopping' \/ iteration' = 0 THEN iteration' ELSE iteration' - 1
        /\ RInv /\ faults = {} /\ Healthy
        /\ iteration \in Nat /\ NArgs \in Nat
        /\ faults' = faults
    <2>1. RInv /\ RInv' /\ faults = {} /\ Healthy
      BY DEF Faultless
    <2>2. reported = IF stopping \/ iteration = 0 THEN iteration ELSE iteration - 1
      BY <2>1, ReportedStops
    <2>3. reported' = IF stopping' \/ iteration' = 0 THEN iteration' ELSE iteration' - 1
      BY <2>1, ReportedThen DEF ReportedIs
    <2>4. iteration \in Nat /\ NArgs \in Nat
      BY <2>1, NArgsAssumption DEF RInv, TypeOK, RunnerTypes, NArgsAssumption
    <2>5. faults' = faults
      BY DEF Next, Program, Runner, System
    <2> QED
      BY <2>1, <2>2, <2>3, <2>4, <2>5
  <1>1. CASE UNCHANGED <<iteration, stopping, dones>>
    BY <1>0, <1>1
  <1>2. CASE SetUpReply /\ UNCHANGED remoteVars
    <2>1. dones' = dones /\ dones = 0
      BY <1>0, <1>2, NextAnswer DEF SetUpReply
    <2>2. iteration = 0 /\ iteration' = 1 /\ NArgs > 0 /\ ~stopping'
      BY <1>0, <1>2, SetUpReplyHealthy
    <2>3. Lifecycle!Start
      BY <1>0, <2>1, <2>2 DEF Lifecycle!Start
    <2> QED
      BY <1>0, <2>3 DEF Lifecycle!Next
  <1>3. CASE StopReplyNext /\ UNCHANGED remoteVars
    <2>1. dones' = dones
      BY <1>3 DEF StopReplyNext
    <2>2. /\ 0 < iteration /\ iteration < NArgs /\ iteration' = iteration + 1
          /\ ~stopping /\ ~stopping'
      BY <1>0, <1>3, StopReplyNextHealthy
    <2>3. Lifecycle!StopAndStart
      BY <1>0, <2>1, <2>2 DEF Lifecycle!StopAndStart
    <2> QED
      BY <1>0, <2>3 DEF Lifecycle!Next
  <1>4. CASE StopReplyLast /\ UNCHANGED remoteVars
    <2>1. stopping' = TRUE /\ iteration' = iteration
      BY <1>4 DEF StopReplyLast
    <2>2. iteration = NArgs /\ ~stopping /\ dones' = dones
      BY <1>0, <1>4, StopReplyLastHealthy
    <2>3. CASE NArgs = 0
      BY <1>0, <2>1, <2>2, <2>3
    <2>4. CASE NArgs > 0
      <3>1. Lifecycle!Stop
        BY <1>0, <2>1, <2>2, <2>4 DEF Lifecycle!Stop
      <3> QED
        BY <1>0, <3>1 DEF Lifecycle!Next
    <2> QED
      BY <1>0, <2>3, <2>4
  <1>5. CASE KillEnds /\ UNCHANGED remoteVars
    <2>1. iteration' = iteration /\ stopping' = stopping
      BY <1>5 DEF KillEnds, AfterKill
    <2>2. stopping /\ iteration = NArgs /\ dones = 0 /\ dones' = 1
      BY <1>0, <1>5, KillEndsHealthy
    <2>3. Lifecycle!Finish
      BY <1>0, <2>1, <2>2 DEF Lifecycle!Finish
    <2> QED
      BY <1>0, <2>3 DEF Lifecycle!Next
  <1>6. CASE Program(RemoteNext) \/ System(Kill) \/ System(DiesLate)
    <2>1. UNCHANGED <<iteration, stopping, dones>>
      BY <1>6 DEF Program, System, runnerVars, historyVars
    <2> QED
      BY <1>1, <2>1
  <1>7. CASE Runner(RunnerNext)
    <2>1. RunnerNext /\ UNCHANGED remoteVars
      BY <1>7 DEF Runner
    <2>2. \/ Run \/ KillEnds \/ NewRemoteTest \/ SetUpReply \/ StopReplyNext \/ StopReplyLast
          \/ StartReply \/ RemoteValidate \/ RemoteDone \/ RemovedRemoteTest \/ IgnoredReply
      BY <1>0, <2>1, NeverHealthy DEF RunnerNext, RunnerDispatch
    <2>3. CASE Run \/ NewRemoteTest \/ StartReply \/ RemoteValidate \/ RemoteDone
               \/ RemovedRemoteTest \/ IgnoredReply
      <3>1. UNCHANGED <<iteration, stopping, dones>>
        BY <2>3 DEF Run, NewRemoteTest, StartReply, RemoteValidate, RemoteDone,
                    RemovedRemoteTest, IgnoredReply, historyVars
      <3> QED
        BY <1>1, <3>1
    <2> QED
      BY <1>2, <1>3, <1>4, <1>5, <2>1, <2>2, <2>3
  <1> QED
    BY <1>6, <1>7 DEF Next

\* What observers see in one step when something may go wrong.
LEMMA NextIsObservedAnyway ==
    ASSUME RInv, RInv', faults # {}, Next
    PROVE  Lifecycle!Next \/ UNCHANGED <<faults, iteration, reported, dones>>
  <1>0. /\ reported = IF stopping \/ iteration = 0 THEN iteration ELSE iteration - 1
        /\ reported' = IF stopping' \/ iteration' = 0 THEN iteration' ELSE iteration' - 1
        /\ iteration \in Nat /\ NArgs \in Nat /\ dones \in Nat
        /\ consumed \in 0..NArgs /\ iteration <= consumed
        /\ faults' = faults
    <2>1. reported = IF stopping \/ iteration = 0 THEN iteration ELSE iteration - 1
      BY ReportedStops
    <2>2. reported' = IF stopping' \/ iteration' = 0 THEN iteration' ELSE iteration' - 1
      BY ReportedThen DEF ReportedIs
    <2> QED
      BY <2>1, <2>2, NArgsAssumption
      DEF RInv, TypeOK, RunnerTypes, NArgsAssumption, Next, Program, Runner, System
  <1>1. CASE /\ UNCHANGED <<iteration, stopping>>
             /\ dones' = dones \/ dones' = dones + 1
    <2>1. reported' = reported
      BY <1>0, <1>1
    <2>2. CASE dones' = dones
      BY <1>0, <1>1, <2>1, <2>2
    <2>3. CASE dones' = dones + 1
      BY <1>0, <1>1, <2>1, <2>3 DEF Lifecycle!Finish, Lifecycle!Next
    <2> QED
      BY <1>1, <2>2, <2>3
  <1>2. CASE SetUpReply
    <2>1. iteration = 0 /\ consumed > 0
      BY <1>2, FirstAnswer DEF SetUpReply
    <2>2. iteration' = 1 /\ dones' = dones /\ stopping' = FALSE
      BY <1>2, <2>1 DEF SetUpReply, Start
    <2>3. Lifecycle!Start
      BY <1>0, <2>1, <2>2 DEF Lifecycle!Start
    <2> QED
      BY <1>0, <2>3 DEF Lifecycle!Next
  <1>3. CASE StopReplyNext
    <2>1. /\ iteration' = iteration + 1 /\ dones' = dones /\ stopping' = FALSE
          /\ consumed < NArgs
      BY <1>3 DEF StopReplyNext, Start
    <2>2. CASE stopping \/ iteration = 0
      <3>1. Lifecycle!Start
        BY <1>0, <2>1, <2>2 DEF Lifecycle!Start
      <3> QED
        BY <1>0, <3>1 DEF Lifecycle!Next
    <2>3. CASE ~stopping /\ iteration # 0
      <3>1. Lifecycle!StopAndStart
        BY <1>0, <2>1, <2>3 DEF Lifecycle!StopAndStart
      <3> QED
        BY <1>0, <3>1 DEF Lifecycle!Next
    <2> QED
      BY <2>2, <2>3
  <1>4. CASE StopReplyLast
    <2>1. stopping' = TRUE /\ iteration' = iteration /\ reported' = iteration
      BY <1>0, <1>4 DEF StopReplyLast
    <2>2. dones' = dones \/ dones' = dones + 1
      BY <1>4 DEF StopReplyLast, TearDown, FinishTearDown
    <2>3. CASE reported = iteration
      BY <1>0, <2>1, <2>2, <2>3 DEF Lifecycle!Finish, Lifecycle!Next
    <2>4. CASE reported # iteration
      <3>1. reported < iteration
        BY <1>0, <2>4
      <3>2. Lifecycle!Stop \/ Lifecycle!StopAndFinish
        BY <1>0, <2>1, <2>2, <3>1 DEF Lifecycle!Stop, Lifecycle!StopAndFinish
      <3> QED
        BY <1>0, <3>2 DEF Lifecycle!Next
    <2> QED
      BY <2>3, <2>4
  <1>5. CASE FatalReply \/ ReplyTimeout \/ KillEnds \/ KillGivesUp
    <2>1. /\ UNCHANGED <<iteration, stopping>>
          /\ dones' = dones \/ dones' = dones + 1
      BY <1>5
      DEF FatalReply, ReplyTimeout, TearDown, KillEnds, KillGivesUp, AfterKill, FinishTearDown
    <2> QED
      BY <1>1, <2>1
  <1>6. CASE Run \/ RunFails \/ NewRemoteTest \/ NewRemoteTestLate \/ RemovedRemoteTest
             \/ StartReply \/ IgnoredReply \/ RemoteDone \/ RemoteValidate
             \/ AsyncSetupTimeout \/ TestTimeout \/ PollSubProcess \/ AbortTest
    <2>1. UNCHANGED <<iteration, stopping, dones>>
      BY <1>6
      DEF Run, RunFails, NewRemoteTest, NewRemoteTestLate, RemovedRemoteTest, StartReply,
          IgnoredReply, RemoteDone, RemoteValidate, AsyncSetupTimeout, TestTimeout,
          PollSubProcess, AbortTest, historyVars
    <2> QED
      BY <1>1, <2>1
  <1>7. CASE Program(RemoteNext) \/ System(Kill) \/ System(DiesLate)
    <2>1. UNCHANGED <<iteration, stopping, dones>>
      BY <1>7 DEF Program, System, runnerVars, historyVars
    <2> QED
      BY <1>1, <2>1
  <1> QED
    BY <1>2, <1>3, <1>4, <1>5, <1>6, <1>7 DEF Next, Runner, RunnerNext, RunnerDispatch

\* With nothing going wrong and at least one argument set, the test's program
\* always ends by itself with a null exit code, for any number of iterations
\* and results.
THEOREM ExitsNormallyTheorem == Spec => []ExitsNormally
  <1>1. HealthyIfFaultless => ExitsNormally
    BY DEF HealthyIfFaultless, Healthy, ExitsNormally, RInv, TypeOK, RunnerTypes
  <1> QED
    BY <1>1, AlwaysHealthy, PTL

\* Whatever goes wrong, every step is, for those who listen to the test's
\* signals, a step of the life cycle it promises, or none: iterations start
\* and stop one after the other, however the answers to repeated stops, the
\* timers and aborts fall; and with nothing going wrong there is one for each
\* argument set, and "done" follows the last of them, once.
THEOREM ImplementsLifecycleSafety == Spec => Lifecycle!SafetySpec
  <1>1. Init => Lifecycle!Init
    <2> SUFFICES ASSUME Init
                 PROVE  Lifecycle!Init
      OBVIOUS
    <2>1. iteration = 0 /\ dones = 0
      BY DEF Init, RunnerInit
    <2>2. reported = 0
      BY <2>1, InitRInv, ReportedStops
    <2> QED
      BY <2>1, <2>2, Zenon DEF Lifecycle!Init
  <1>2. /\ HealthyIfFaultless /\ HealthyIfFaultless' /\ [Next]_vars
        => [Lifecycle!Next]_(Lifecycle!vars)
    <2>1. ASSUME HealthyIfFaultless, HealthyIfFaultless', Next
          PROVE  Lifecycle!Next \/ UNCHANGED Lifecycle!vars
      <3>1. RInv /\ RInv' /\ (faults = {} => Healthy) /\ (faults' = {} => Healthy')
        BY <2>1 DEF HealthyIfFaultless
      <3>2. faults' = faults
        BY <2>1 DEF Next, Program, Runner, System
      <3>3. CASE faults = {}
        <4>1. Faultless /\ Faultless'
          BY <3>1, <3>2, <3>3 DEF Faultless
        <4> QED
          BY <2>1, <4>1, NextIsObserved DEF Lifecycle!vars
      <3>4. CASE faults # {}
        BY <2>1, <3>1, <3>4, NextIsObservedAnyway DEF Lifecycle!vars
      <3> QED
        BY <3>3, <3>4
    <2>2. ASSUME UNCHANGED vars
          PROVE  UNCHANGED Lifecycle!vars
      <3>1. UNCHANGED <<faults, iteration, stops, dones>>
        BY <2>2 DEF vars, runnerVars, historyVars
      <3>2. reported' = reported
        BY <3>1 DEF reported
      <3> QED
        BY <3>1, <3>2 DEF Lifecycle!vars
    <2> QED
      BY <2>1, <2>2
  <1> QED
    BY <1>1, <1>2, AlwaysHealthy, PTL DEF Spec, Lifecycle!SafetySpec

-----------------------------------------------------------------------------
(* Runs and iterations, whatever goes wrong.                               *)

Starts(s) == Cardinality({k \in DOMAIN s : s[k] = "remoteStart"})

LEMMA StartsType ==
    ASSUME NEW s \in Seq(Methods)
    PROVE  /\ IsFiniteSet({k \in DOMAIN s : s[k] = "remoteStart"})
           /\ Starts(s) \in Nat
           /\ s = <<>> => Starts(s) = 0
  <1>1. DOMAIN s = 1..Len(s) /\ Len(s) \in Nat
    BY LenProperties
  <1>2. IsFiniteSet(1..Len(s))
    BY <1>1, FS_Interval
  <1>3. IsFiniteSet({k \in DOMAIN s : s[k] = "remoteStart"})
    BY <1>1, <1>2, FS_Subset
  <1>4. Starts(s) \in Nat
    BY <1>3, FS_CardinalityType DEF Starts
  <1>5. ASSUME s = <<>>
        PROVE  Starts(s) = 0
    <2>1. {k \in DOMAIN s : s[k] = "remoteStart"} = {}
      BY <1>5
    <2> QED
      BY <2>1, FS_EmptySet DEF Starts
  <1> QED
    BY <1>3, <1>4, <1>5

LEMMA StartsAppend ==
    ASSUME NEW s \in Seq(Methods), NEW m \in Methods
    PROVE  Starts(Append(s, m)) = IF m = "remoteStart" THEN Starts(s) + 1 ELSE Starts(s)
  <1> DEFINE S == {k \in DOMAIN s : s[k] = "remoteStart"}
             T == {k \in DOMAIN Append(s, m) : Append(s, m)[k] = "remoteStart"}
  <1>1. /\ DOMAIN s = 1..Len(s) /\ Len(s) \in Nat
        /\ DOMAIN Append(s, m) = 1..(Len(s) + 1)
        /\ \A k \in 1..Len(s) : Append(s, m)[k] = s[k]
        /\ Append(s, m)[Len(s) + 1] = m
    BY LenProperties, AppendProperties
  <1>2. T = IF m = "remoteStart" THEN S \cup {Len(s) + 1} ELSE S
    BY <1>1
  <1>3. IsFiniteSet(S) /\ Len(s) + 1 \notin S
    <2>1. IsFiniteSet(S)
      BY StartsType, Zenon
    <2> QED
      BY <1>1, <2>1
  <1>4. Cardinality(S \cup {Len(s) + 1}) = Cardinality(S) + 1
    BY <1>3, FS_AddElement
  <1>5. Starts(s) = Cardinality(S) /\ Starts(Append(s, m)) = Cardinality(T)
    BY DEF Starts
  <1> HIDE DEF S, T
  <1> QED
    BY <1>2, <1>4, <1>5

LEMMA StartsTail ==
    ASSUME NEW s \in Seq(Methods), s # <<>>
    PROVE  Starts(s) = IF Head(s) = "remoteStart" THEN Starts(Tail(s)) + 1 ELSE Starts(Tail(s))
  <1> DEFINE S == {k \in DOMAIN s : s[k] = "remoteStart"}
             R == {k \in S : k # 1}
             T == {k \in DOMAIN Tail(s) : Tail(s)[k] = "remoteStart"}
             f == [k \in T |-> k + 1]
  <1>1. /\ DOMAIN s = 1..Len(s) /\ Len(s) \in Nat /\ Len(s) >= 1
        /\ Head(s) = s[1]
        /\ Tail(s) \in Seq(Methods)
        /\ DOMAIN Tail(s) = 1..(Len(s) - 1)
        /\ \A k \in 1..(Len(s) - 1) : Tail(s)[k] = s[k + 1]
    <2>1. Tail(s) \in Seq(Methods) /\ Len(Tail(s)) = Len(s) - 1 /\ Head(s) = s[1]
          /\ \A k \in 1..Len(Tail(s)) : Tail(s)[k] = s[k + 1]
      BY HeadTailProperties
    <2> QED
      BY <2>1, LenProperties, EmptySeq
  <1>2. f \in Bijection(T, R)
    <2>1. f \in [T -> R]
      BY <1>1
    <2>2. \A a, b \in T : f[a] = f[b] => a = b
      BY <1>1
    <2>3. ASSUME NEW k \in R
          PROVE  \E j \in T : f[j] = k
      <3>1. k - 1 \in T /\ f[k - 1] = k
        BY <1>1
      <3> QED
        BY <3>1
    <2> HIDE DEF f, T, R
    <2> QED
      BY <2>1, <2>2, <2>3, Fun_IsBij
  <1>3. IsFiniteSet(S) /\ IsFiniteSet(T)
    BY <1>1, StartsType, Zenon
  <1>4. IsFiniteSet(R)
    BY <1>3, FS_Subset
  <1>5. Cardinality(R) = Cardinality(T)
    <2>1. ExistsBijection(T, R)
      BY <1>2 DEF ExistsBijection
    <2> HIDE DEF T, R
    <2> QED
      BY <2>1, <1>3, FS_Bijection
  <1>6. CASE Head(s) = "remoteStart"
    <2>1. S = R \cup {1} /\ 1 \notin R
      BY <1>1, <1>6
    <2>2. Cardinality(S) = Cardinality(R) + 1
      BY <1>4, <2>1, FS_AddElement
    <2> QED
      BY <1>5, <1>6, <2>2 DEF Starts
  <1>7. CASE Head(s) # "remoteStart"
    <2>1. S = R
      BY <1>1, <1>7
    <2> QED
      BY <1>5, <1>7, <2>1 DEF Starts
  <1> QED
    BY <1>6, <1>7

\* The messages that can arrive in the n-th iteration: no result of a later run.
Timely(n) == {m \in Messages : m.type = "validate" => m.run <= n}

LEMMA TimelyMessages ==
    ASSUME NEW n \in Nat
    PROVE  /\ Joined \in Timely(n) /\ Left \in Timely(n) /\ Done \in Timely(n)
           /\ \A m \in Methods : Error(m) \in Timely(n)
           /\ \A m \in Methods, ok \in BOOLEAN : Reply(m, ok) \in Timely(n)
           /\ \A r \in Nat : r <= n => Validate(r) \in Timely(n)
           /\ \A ms \in Seq(Methods) : Errors(ms) \in Seq(Timely(n))
           /\ Seq(Timely(n)) \subseteq Seq(Timely(n + 1))
  <1>1. /\ Joined \in Timely(n) /\ Left \in Timely(n) /\ Done \in Timely(n)
        /\ \A m \in Methods : Error(m) \in Timely(n)
        /\ \A m \in Methods, ok \in BOOLEAN : Reply(m, ok) \in Timely(n)
        /\ \A r \in Nat : r <= n => Validate(r) \in Timely(n)
    BY MessageTypes, MessageFields DEF Timely
  <1>2. ASSUME NEW ms \in Seq(Methods)
        PROVE  Errors(ms) \in Seq(Timely(n))
    <2>1. DOMAIN ms = 1..Len(ms) /\ Len(ms) \in Nat /\ \A k \in DOMAIN ms : ms[k] \in Methods
      BY LenProperties
    <2>2. Errors(ms) \in [1..Len(ms) -> Timely(n)]
      BY <1>1, <2>1 DEF Errors
    <2> QED
      BY <2>1, <2>2, IsASeq
  <1>3. ASSUME NEW m \in Timely(n)
        PROVE  m \in Timely(n + 1)
    <2>1. CASE m.type = "validate"
      <3>1. m.run \in Nat
        BY <2>1, MessageFields DEF Timely, Messages
      <3> QED
        BY <2>1, <3>1 DEF Timely
    <2>2. CASE m.type # "validate"
      BY <2>2 DEF Timely
    <2> QED
      BY <2>1, <2>2
  <1>4. Timely(n) \subseteq Timely(n + 1)
    BY <1>3
  <1>5. Seq(Timely(n)) \subseteq Seq(Timely(n + 1))
    BY <1>4
  <1> QED
    BY <1>1, <1>2, <1>5

\* The program never starts more runs than the runner started iterations, and
\* nothing it reports is about a later run than the current iteration.
RunBook ==
    /\ run >= 1
    /\ workerRun <= iteration
    /\ Starts(calls) + (IF runlevel = "started" THEN run ELSE run - 1) <= iteration
    /\ main = "spawned" =>
          runlevel = "setup" /\ (process = "connected" => Head(calls) = "remoteStart")
    /\ inbox \in Seq(Timely(iteration))
    /\ \A f \in filed : f[1] <= f[2]

RunTypes ==
    /\ run \in Nat /\ workerRun \in Nat /\ iteration \in Nat
    /\ calls \in Seq(Methods) /\ Starts(calls) \in Nat

LEMMA RunsTyped == ASSUME RInv PROVE RunTypes
  <1>1. run \in Nat /\ workerRun \in Nat /\ iteration \in Nat /\ calls \in Seq(Methods)
    BY NArgsAssumption
    DEF RInv, TypeOK, LinkTypes, RemoteTypes, RunnerTypes, NArgsAssumption
  <1> QED
    BY <1>1, StartsType DEF RunTypes

\* A call that was served.
LEMMA ServedRuns ==
    ASSUME RInv, RunBook, NEW ok \in BOOLEAN, Answer(ok), calls # <<>>, iteration' = iteration
    PROVE  /\ Starts(calls) = IF Head(calls) = "remoteStart"
                                THEN Starts(calls') + 1 ELSE Starts(calls')
           /\ Starts(calls') \in Nat
           /\ inbox' \in Seq(Timely(iteration'))
  <1>1. RunTypes /\ calls' = Tail(calls)
    BY RunsTyped DEF Answer
  <1>2. calls' \in Seq(Methods) /\ Head(calls) \in Methods
    BY <1>1, Rest DEF RunTypes
  <1>3. inbox \in Seq(Timely(iteration)) /\ Reply(Head(calls), ok) \in Timely(iteration)
    BY <1>1, <1>2, TimelyMessages DEF RunBook, RunTypes
  <1>4. inbox' \in Seq(Timely(iteration))
    BY <1>3, AppendProperties DEF Answer
  <1> QED
    BY <1>1, <1>2, <1>4, StartsTail, StartsType DEF RunTypes

LEMMA LeaveRuns ==
    ASSUME RInv, RunBook, NEW code, Leave(code),
           UNCHANGED <<run, runlevel, workerRun, main, iteration, filed>>
    PROVE  RunBook'
  <1>1. /\ RunTypes /\ calls' = <<>> /\ process' = "exited"
        /\ inbox \in Seq(Timely(iteration))
    BY RunsTyped DEF Leave, RunBook
  <1>2. inbox' \in Seq(Timely(iteration))
    <2>1. /\ Left \in Timely(iteration)
          /\ Errors(calls) \in Seq(Timely(iteration))
      BY <1>1, TimelyMessages, LenProperties DEF RunTypes
    <2>2. inbox \o <<Left>> \in Seq(Timely(iteration))
      BY <1>1, <2>1, ConcatProperties
    <2>3. (inbox \o <<Left>>) \o Errors(calls) \in Seq(Timely(iteration))
      BY <2>1, <2>2, ConcatProperties
    <2>4. inbox' = inbox \/ inbox' = (inbox \o <<Left>>) \o Errors(calls)
      BY DEF Leave
    <2> QED
      BY <1>1, <2>3, <2>4
  <1>3. Starts(calls') = 0
    <2>1. <<>> \in Seq(Methods)
      OBVIOUS
    <2> QED
      BY <1>1, <2>1, StartsType
  <1>4. (IF runlevel = "started" THEN run ELSE run - 1) <= iteration
    BY <1>1 DEF RunBook, RunTypes
  <1> QED
    BY <1>1, <1>2, <1>3, <1>4 DEF RunBook, RunTypes

LEMMA ProgramKeepsRuns ==
    ASSUME RInv, RunBook, RemoteNext, UNCHANGED <<faults, runnerVars>>
    PROVE  RunBook'
  <1>0. RunTypes /\ UNCHANGED <<iteration, filed>> /\ inbox \in Seq(Timely(iteration))
    BY RunsTyped DEF runnerVars, historyVars, RunBook
  <1>1. CASE Connect
    <2>1. inbox' = Append(inbox, Joined) /\ Joined \in Timely(iteration) /\ process = "starting"
      BY <1>0, <1>1, TimelyMessages DEF Connect, Emit, RunTypes
    <2>2. inbox' \in Seq(Timely(iteration))
      BY <1>0, <2>1, AppendProperties
    <2>3. main # "spawned" /\ UNCHANGED <<calls, remoteVars>>
      BY <1>1, <2>1 DEF Connect, RInv, ServesCall
    <2> QED
      BY <1>0, <2>2, <2>3 DEF RunBook, remoteVars
  <1>2. CASE HandleSetUp \/ HandleStartRefused \/ HandleStop \/ HandleTearDown
    <2>1. /\ \E ok \in BOOLEAN : Answer(ok)
          /\ calls # <<>> /\ main = "loop"
          /\ UNCHANGED <<main, workerRun>>
      BY <1>2 DEF HandleSetUp, HandleStartRefused, HandleStop, HandleTearDown, Serving
    <2>2. /\ Starts(calls) = IF Head(calls) = "remoteStart"
                                THEN Starts(calls') + 1 ELSE Starts(calls')
          /\ Starts(calls') \in Nat
          /\ inbox' \in Seq(Timely(iteration'))
      BY <1>0, <2>1, ServedRuns
    <2>3. /\ run' >= 1
          /\ Starts(calls') + (IF runlevel' = "started" THEN run' ELSE run' - 1) <= iteration
      <3>1. CASE HandleSetUp
        <4>1. UNCHANGED <<runlevel, run>> \/ (runlevel' = "setup" /\ run' = 1)
          BY <3>1 DEF HandleSetUp
        <4> QED
          BY <1>0, <2>2, <4>1 DEF RunBook, RunTypes
      <3>2. CASE HandleStartRefused
        <4>1. /\ run' = run /\ Head(calls) = "remoteStart"
              /\ runlevel' = runlevel \/ (runlevel = "setup" /\ runlevel' = "started")
          BY <3>2 DEF HandleStartRefused, Serving
        <4> QED
          BY <1>0, <2>2, <4>1 DEF RunBook, RunTypes
      <3>3. CASE HandleStop
        <4>1. \/ runlevel = "started" /\ runlevel' = "setup" /\ run' = run + 1
              \/ UNCHANGED <<runlevel, run>>
          BY <3>3 DEF HandleStop
        <4> QED
          BY <1>0, <2>2, <4>1 DEF RunBook, RunTypes
      <3>4. CASE HandleTearDown
        <4>1. /\ run' = run
              /\ runlevel' = runlevel \/ (runlevel = "setup" /\ runlevel' = "idle")
          BY <3>4 DEF HandleTearDown
        <4> QED
          BY <1>0, <2>2, <4>1 DEF RunBook, RunTypes
      <3> QED
        BY <1>2, <3>1, <3>2, <3>3, <3>4
    <2> QED
      BY <1>0, <2>1, <2>2, <2>3 DEF RunBook
  <1>3. CASE HandleStart
    <2>1. /\ runlevel = "setup" /\ main' = "spawned" /\ workerRun' = run
          /\ UNCHANGED <<calls, inbox, runlevel, run, process>>
          /\ calls # <<>> /\ Head(calls) = "remoteStart"
      BY <1>3 DEF HandleStart, Serving
    <2>2. Starts(calls) >= 1
      <3>1. Tail(calls) \in Seq(Methods)
        BY <1>0, <2>1, Rest DEF RunTypes
      <3>2. Starts(Tail(calls)) \in Nat
        BY <3>1, StartsType
      <3>3. Starts(calls) = Starts(Tail(calls)) + 1
        BY <1>0, <2>1, StartsTail DEF RunTypes
      <3> QED
        BY <3>2, <3>3
    <2>3. run <= iteration
      BY <1>0, <2>1, <2>2 DEF RunBook, RunTypes
    <2> QED
      BY <1>0, <2>1, <2>3 DEF RunBook
  <1>4. CASE StartReturns
    <2>1. /\ main = "spawned" /\ main' = "loop" /\ runlevel' = "started"
          /\ \E ok \in BOOLEAN : Answer(ok)
          /\ process = "connected" /\ UNCHANGED <<run, workerRun>>
      BY <1>4 DEF StartReturns
    <2>2. runlevel = "setup" /\ Head(calls) = "remoteStart" /\ calls # <<>>
      BY <2>1 DEF RunBook, RInv, ServesCall
    <2>3. /\ Starts(calls) = Starts(calls') + 1
          /\ Starts(calls') \in Nat
          /\ inbox' \in Seq(Timely(iteration'))
      BY <1>0, <2>1, <2>2, ServedRuns
    <2> QED
      BY <1>0, <2>1, <2>2, <2>3 DEF RunBook, RunTypes
  <1>5. CASE Exit \/ Crash
    <2>1. (\E code : Leave(code)) /\ UNCHANGED remoteVars
      BY <1>5 DEF Exit, Crash
    <2> QED
      BY <1>0, <2>1, LeaveRuns DEF remoteVars
  <1>6. CASE WorkerStep \/ WorkerHangs
    <2>1. /\ UNCHANGED <<process, calls, runlevel, run, main, workerRun>>
          /\ inbox' \in {inbox, Append(inbox, Validate(workerRun)), Append(inbox, Done)}
      BY <1>6 DEF WorkerStep, WorkerHangs, WorkerValidates, WorkerDone, WorkerReturns,
                  WorkerRuns, Emit
    <2>2. Validate(workerRun) \in Timely(iteration) /\ Done \in Timely(iteration)
      BY <1>0, TimelyMessages DEF RunBook, RunTypes
    <2>3. inbox' \in Seq(Timely(iteration))
      BY <1>0, <2>1, <2>2, AppendProperties
    <2> QED
      BY <1>0, <2>1, <2>3 DEF RunBook
  <1> QED
    BY <1>1, <1>2, <1>3, <1>4, <1>5, <1>6 DEF RemoteNext, RemoteStep

\* At most one method is called by a callback.
Few == {<<>>} \cup {<<m>> : m \in Methods}

LEMMA ExchangeRuns ==
    ASSUME RInv, NEW n \in Nat, NEW box \in Seq(Timely(n)), NEW expected, NEW ms \in Few,
           Exchange(box, expected, ms)
    PROVE  /\ inbox' \in Seq(Timely(n))
           /\ Starts(calls') \in Nat
           /\ Starts(calls') <= Starts(calls) + 1
           /\ ms # <<"remoteStart">> => Starts(calls') = Starts(calls)
           /\ calls # <<>> => Head(calls') = Head(calls)
  <1>1. /\ RunTypes
        /\ \/ inbox' = box /\ calls' = calls \o ms
           \/ inbox' = box \o Errors(ms) /\ calls' = calls
    BY RunsTyped DEF Exchange
  <1>2. CASE ms = <<>>
    <2>1. calls \o ms = calls /\ Errors(ms) = <<>> /\ box \o <<>> = box
      BY <1>1, <1>2, NoErrors, ConcatEmptySeq DEF RunTypes
    <2>2. calls' = calls /\ inbox' = box
      BY <1>1, <2>1
    <2> QED
      BY <1>1, <2>2 DEF RunTypes
  <1>3. ASSUME NEW m \in Methods, ms = <<m>>
        PROVE  /\ inbox' \in Seq(Timely(n))
               /\ Starts(calls') \in Nat
               /\ Starts(calls') <= Starts(calls) + 1
               /\ ms # <<"remoteStart">> => Starts(calls') = Starts(calls)
               /\ calls # <<>> => Head(calls') = Head(calls)
    <2>0. ms \in Seq(Methods)
      BY <1>3
    <2>1. Errors(ms) \in Seq(Timely(n))
      BY <2>0, TimelyMessages
    <2>2. box \o Errors(ms) \in Seq(Timely(n))
      BY <2>1, ConcatProperties
    <2>3. calls' = calls \/ calls' = Append(calls, m)
      <3>1. calls \o <<m>> = Append(calls, m)
        BY <1>1, AppendProperties DEF RunTypes
      <3> QED
        BY <1>1, <1>3, <3>1
    <2>4. ms # <<"remoteStart">> => m # "remoteStart"
      BY <1>3
    <2>7. inbox' \in Seq(Timely(n))
      BY <1>1, <2>2
    <2>5. CASE calls' = calls
      BY <1>1, <2>5, <2>7 DEF RunTypes
    <2>6. CASE calls' = Append(calls, m)
      <3>1. Starts(calls') = IF m = "remoteStart" THEN Starts(calls) + 1 ELSE Starts(calls)
        BY <1>1, <2>6, StartsAppend DEF RunTypes
      <3>2. calls # <<>> => Head(calls') = Head(calls)
        <4>1. calls # <<>> => Head(calls) = calls[1] /\ Len(calls) \in Nat /\ Len(calls) >= 1
          BY <1>1, LenProperties, EmptySeq, HeadTailProperties DEF RunTypes
        <4>2. /\ calls' \in Seq(Methods) /\ calls' # <<>>
              /\ \A k \in 1..Len(calls) : calls'[k] = calls[k]
          BY <1>1, <2>6, AppendProperties DEF RunTypes
        <4>3. Head(calls') = calls'[1]
          BY <4>2, HeadTailProperties
        <4> QED
          BY <4>1, <4>2, <4>3
      <3> QED
        BY <1>1, <2>4, <2>7, <3>1, <3>2 DEF RunTypes
    <2> QED
      BY <2>3, <2>5, <2>6
  <1> QED
    BY <1>2, <1>3 DEF Few

\* A callback of a message or of a timer calls the methods ms.
Sends(ms) ==
    \E expected :
        \/ Exchange(inbox, expected, ms)
        \/ inbox # <<>> /\ Exchange(Tail(inbox), expected, ms)

\* What a step of the runner does to the calls, the messages and the records.
LEMMA RunnerCalls ==
    ASSUME RInv, RunnerNext
    PROVE  /\ \/ /\ UNCHANGED <<calls, inbox, iteration>>
                 /\ process' = process \/ process = "unborn"
              \/ /\ process' = process
                 /\ \E ms \in Few :
                       /\ Sends(ms)
                       /\ \/ iteration' = iteration /\ ms # <<"remoteStart">>
                          \/ iteration' = iteration + 1
           /\ \/ filed' = filed
              \/ /\ Incoming("validate") /\ iteration' = iteration
                 /\ filed' = filed \cup {<<Head(inbox).run, iteration>>}
  <1>0. /\ <<>> \in Few /\ <<>> # <<"remoteStart">>
        /\ IfRemote(<<"remoteStart">>) \in Few
        /\ \A m \in {"remoteSetUp", "remoteStop", "remoteTearDown"} :
              /\ <<m>> \in Few /\ IfRemote(<<m>>) \in Few
              /\ <<m>> # <<"remoteStart">> /\ IfRemote(<<m>>) # <<"remoteStart">>
    BY DEF Few, IfRemote, Methods
  <1>1. CASE Run \/ RunFails \/ KillEnds \/ KillGivesUp
    BY <1>1
    DEF Run, RunFails, KillEnds, KillGivesUp, AfterKill, linkVars, historyVars, RInv, LinkBook
  <1>2. CASE NewRemoteTest \/ RemoteDone
    <2>1. /\ process' = process /\ iteration' = iteration /\ filed' = filed
          /\ \/ Sends(<<"remoteSetUp">>) \/ Sends(<<"remoteStop">>)
             \/ Sends(IfRemote(<<"remoteStop">>))
      BY <1>2 DEF NewRemoteTest, RemoteDone, StopFrom, Unchanged, historyVars, Incoming, Sends
    <2> QED
      BY <1>0, <2>1
  <1>3. CASE NewRemoteTestLate \/ RemovedRemoteTest \/ StartReply \/ IgnoredReply \/ RemoteValidate
    <2>1. process' = process /\ iteration' = iteration /\ Sends(<<>>)
      BY <1>3 DEF NewRemoteTestLate, RemovedRemoteTest, StartReply, IgnoredReply, RemoteValidate,
                  Unchanged, Answers, Incoming, Sends
    <2>2. \/ filed' = filed
          \/ Incoming("validate") /\ filed' = filed \cup {<<Head(inbox).run, iteration>>}
      BY <1>3 DEF NewRemoteTestLate, RemovedRemoteTest, StartReply, IgnoredReply, RemoteValidate,
                  historyVars
    <2> QED
      BY <1>0, <2>1, <2>2
  <1>4. CASE SetUpReply \/ StopReplyNext
    <2>1. process' = process /\ iteration' = iteration + 1 /\ filed' = filed
      BY <1>4 DEF SetUpReply, StopReplyNext, Start, Unchanged, historyVars
    <2>2. Sends(<<>>) \/ Sends(IfRemote(<<"remoteStart">>))
      BY <1>4 DEF SetUpReply, StopReplyNext, Start, Answers, Incoming, Sends
    <2> QED
      BY <1>0, <2>1, <2>2
  <1>5. CASE FatalReply \/ StopReplyLast
    <2>1. process' = process /\ iteration' = iteration /\ filed' = filed
      BY <1>5 DEF FatalReply, StopReplyLast, Unchanged
    <2>2. Sends(IfRemote(<<"remoteTearDown">>))
      BY <1>5 DEF FatalReply, StopReplyLast, TearDown, Answers, Incoming, Sends
    <2> QED
      BY <1>0, <2>1, <2>2
  <1>6. CASE ReplyTimeout
    <2>1. process' = process /\ iteration' = iteration /\ filed' = filed
      BY <1>6 DEF ReplyTimeout, Unchanged
    <2>2. Sends(<<>>) \/ Sends(IfRemote(<<"remoteTearDown">>))
      BY <1>6 DEF ReplyTimeout, TearDown, Sends
    <2> QED
      BY <1>0, <2>1, <2>2
  <1>7. CASE AsyncSetupTimeout \/ TestTimeout \/ PollSubProcess \/ AbortTest
    <2>1. process' = process /\ iteration' = iteration /\ filed' = filed
      BY <1>7 DEF AsyncSetupTimeout, TestTimeout, PollSubProcess, AbortTest, Unchanged, historyVars
    <2>2. Sends(IfRemote(<<"remoteStop">>))
      BY <1>7 DEF AsyncSetupTimeout, TestTimeout, PollSubProcess, AbortTest, StopFrom, Sends
    <2> QED
      BY <1>0, <2>1, <2>2
  <1> QED
    BY <1>1, <1>2, <1>3, <1>4, <1>5, <1>6, <1>7 DEF RunnerNext, RunnerDispatch

LEMMA RunnerKeepsRuns ==
    ASSUME RInv, RInv', RunBook, RunnerNext, UNCHANGED <<faults, remoteVars>>
    PROVE  RunBook'
  <1>0. /\ RunTypes /\ UNCHANGED <<runlevel, run, main, workerRun>>
        /\ inbox \in Seq(Timely(iteration))
        /\ process = "unborn" => main # "spawned"
    BY RunsTyped DEF RInv, ServesCall, RunBook, remoteVars
  <1>1. \A f \in filed' : f[1] <= f[2]
    <2>1. CASE filed' = filed
      BY <2>1 DEF RunBook
    <2>2. CASE Incoming("validate") /\ filed' = filed \cup {<<Head(inbox).run, iteration>>}
      <3>1. Head(inbox) \in Timely(iteration) /\ Head(inbox).type = "validate"
        BY <1>0, <2>2, HeadTailProperties DEF Incoming
      <3>2. Head(inbox).run <= iteration
        BY <3>1 DEF Timely
      <3> QED
        BY <2>2, <3>2 DEF RunBook
    <2> QED
      BY <2>1, <2>2, RunnerCalls
  <1>2. CASE UNCHANGED <<calls, inbox, iteration>> /\ (process' = process \/ process = "unborn")
    BY <1>0, <1>1, <1>2 DEF RunBook
  <1>3. ASSUME process' = process, NEW ms \in Few, Sends(ms),
               \/ iteration' = iteration /\ ms # <<"remoteStart">>
               \/ iteration' = iteration + 1
        PROVE  RunBook'
    <2>1. inbox # <<>> => Tail(inbox) \in Seq(Timely(iteration))
      BY <1>0, HeadTailProperties
    <2>2. /\ inbox' \in Seq(Timely(iteration))
          /\ Starts(calls') \in Nat
          /\ Starts(calls') <= Starts(calls) + 1
          /\ ms # <<"remoteStart">> => Starts(calls') = Starts(calls)
          /\ calls # <<>> => Head(calls') = Head(calls)
      <3>1. PICK expected : \/ Exchange(inbox, expected, ms)
                            \/ inbox # <<>> /\ Exchange(Tail(inbox), expected, ms)
        BY <1>3 DEF Sends
      <3>2. iteration \in Nat
        BY <1>0 DEF RunTypes
      <3>3. CASE Exchange(inbox, expected, ms)
        BY <1>0, <3>2, <3>3, ExchangeRuns
      <3>4. CASE inbox # <<>> /\ Exchange(Tail(inbox), expected, ms)
        BY <2>1, <3>2, <3>4, ExchangeRuns
      <3> QED
        BY <3>1, <3>3, <3>4
    <2>3. inbox' \in Seq(Timely(iteration'))
      BY <1>0, <1>3, <2>2, TimelyMessages DEF RunTypes
    <2>4. main = "spawned" =>
             runlevel = "setup" /\ (process' = "connected" => Head(calls') = "remoteStart")
      BY <1>3, <2>2 DEF RunBook, RInv, ServesCall
    <2>5. /\ workerRun <= iteration'
          /\ Starts(calls') + (IF runlevel = "started" THEN run ELSE run - 1) <= iteration'
      BY <1>0, <1>3, <2>2 DEF RunBook, RunTypes
    <2> QED
      BY <1>0, <1>1, <2>3, <2>4, <2>5 DEF RunBook
  <1> QED
    BY <1>2, <1>3, RunnerCalls

LEMMA AlwaysRunBook == Spec => [](RInv /\ RunBook)
  <1>1. Init => RInv /\ RunBook
    <2> SUFFICES ASSUME Init
                 PROVE  RInv /\ RunBook
      OBVIOUS
    <2>1. calls = <<>> /\ inbox = <<>> /\ run = 1 /\ runlevel = "idle" /\ workerRun = 0
          /\ iteration = 0 /\ main = "loop" /\ filed = {}
      BY DEF Init, LinkInit, RemoteInit, RunnerInit
    <2>2. <<>> \in Seq(Methods) /\ <<>> \in Seq(Timely(0))
      OBVIOUS
    <2>3. Starts(calls) = 0
      BY <2>1, <2>2, StartsType
    <2> QED
      BY <2>1, <2>2, <2>3, InitRInv DEF RunBook
  <1>2. RInv /\ RunBook /\ [Next]_vars => (RInv /\ RunBook)'
    <2> SUFFICES ASSUME RInv, RunBook, [Next]_vars
                 PROVE  RInv' /\ RunBook'
      OBVIOUS
    <2>1. RInv'
      BY NextKeepsRInv
    <2>2. CASE Program(RemoteNext)
      BY <2>1, <2>2, ProgramKeepsRuns DEF Program
    <2>3. CASE Runner(RunnerNext)
      BY <2>1, <2>3, RunnerKeepsRuns DEF Runner
    <2>4. CASE System(Kill) \/ System(DiesLate)
      <3>1. Leave(1) /\ UNCHANGED <<run, runlevel, workerRun, main, iteration, filed>>
        BY <2>4 DEF System, Kill, DiesLate, remoteVars, runnerVars, historyVars
      <3> QED
        BY <2>1, <3>1, LeaveRuns
    <2>5. CASE UNCHANGED vars
      <3>1. UNCHANGED <<process, calls, inbox, run, runlevel, workerRun, main, iteration, filed>>
        BY <2>5 DEF vars, linkVars, remoteVars, runnerVars, historyVars
      <3> QED
        BY <2>1, <3>1 DEF RunBook
    <2> QED
      BY <2>2, <2>3, <2>4, <2>5 DEF Next
  <1> QED
    BY <1>1, <1>2, PTL DEF Spec

\* Whatever goes wrong, what the program reports is never filed under an
\* earlier iteration than that of the run it is about; when nothing goes
\* wrong, it is filed under that one.
THEOREM FiledUnderOwnIterationTheorem == Spec => []FiledUnderOwnIteration
  <1>1. RInv /\ RunBook /\ HealthyIfFaultless => FiledUnderOwnIteration
    BY DEF RunBook, HealthyIfFaultless, Healthy, FiledUnderOwnIteration
  <1> QED
    BY <1>1, AlwaysRunBook, AlwaysHealthy, PTL

-----------------------------------------------------------------------------
(* A test is done once: what can end it is in one place at a time.         *)

Free(s, S) == \A k \in DOMAIN s : s[k] \notin S
Once(s, S) == \A j, k \in DOMAIN s : s[j] \in S /\ s[k] \in S => j = k

\* The answers upon which the runner goes on or tears the test down, and the
\* messages that lead to such an answer while the program is there.
EndingAnswers ==
    {m \in Messages :
        \/ m.type = "reply" /\ m.method \in {"remoteSetUp", "remoteStop"}
        \/ m.type = "reply" /\ m.method = "remoteStart" /\ ~m.ok
        \/ m.type = "error" /\ m.method \in {"remoteSetUp", "remoteStart"}}
EndingMessages == EndingAnswers \cup {m \in Messages : m.type \in {"joined", "done"}}

\* The calls that are followed by such an answer; if the program is gone, by
\* the daemon's error.
EndingCalls == {"remoteSetUp", "remoteStart", "remoteStop"}
FatalCalls == {"remoteSetUp", "remoteStart"}

\* The start that is being served has handed on to the worker.
Unserved == IF main = "spawned" THEN Tail(calls) ELSE calls

Over == busy \/ dones > 0

EndIsOnePlace ==
    /\ Once(inbox, EndingMessages)
    /\ Once(Unserved, EndingCalls)
    /\ Free(inbox, EndingMessages) \/ Free(Unserved, EndingCalls)
    /\ worker = "testing" => Free(inbox, EndingMessages) /\ Free(Unserved, EndingCalls)

NoEnd ==
    Free(inbox, EndingMessages) /\ Free(Unserved, EndingCalls) /\ worker # "testing"

EndUnborn == process \in {"unborn", "starting"} =>
    calls = <<>> /\ ~Over /\ worker = "none" /\ main = "loop"

EndConnected == process = "connected" => EndIsOnePlace /\ (Over => NoEnd)

\* Until the start is answered, no answer before it can end the test, and
\* none behind it if the program crashes.
EndSpawned == process = "connected" /\ main = "spawned" =>
    /\ \A k \in DOMAIN inbox : inbox[k] \notin EndingAnswers /\ inbox[k].type # "joined"
    /\ calls # <<>> /\ Head(calls) = "remoteStart"
    /\ Free(Tail(calls), FatalCalls)
    /\ ~Over

EndExited == process = "exited" =>
    /\ calls = <<>>
    /\ Once(inbox, EndingAnswers)
    /\ Over => Free(inbox, EndingAnswers)

EndCounted == dones <= 1 /\ (busy => dones = 0)

EndBook == EndUnborn /\ EndConnected /\ EndSpawned /\ EndExited /\ EndCounted

\* Where nobody but the program's answers and its end tell the runner to stop,
\* and a start is not refused behind the back of the worker.
Undisturbed == faults \cap {"timeout", "abort", "slow", "refusesLate"} = {}

LEMMA FreeEmpty ==
    ASSUME NEW S
    PROVE  Free(<<>>, S) /\ Once(<<>>, S)
BY DEF Free, Once

LEMMA FreeSubset ==
    ASSUME NEW s, NEW S, NEW T, T \subseteq S
    PROVE  /\ Free(s, S) => Free(s, T)
           /\ Once(s, S) => Once(s, T)
BY DEF Free, Once

LEMMA FreeOnce ==
    ASSUME NEW s, NEW S, Free(s, S)
    PROVE  Once(s, S)
BY DEF Free, Once

LEMMA FreeOne ==
    ASSUME NEW x, NEW S
    PROVE  /\ Free(<<x>>, S) <=> x \notin S
           /\ Once(<<x>>, S)
BY Single DEF Free, Once

LEMMA FreeConcat ==
    ASSUME NEW T, NEW s \in Seq(T), NEW t \in Seq(T), NEW S
    PROVE  /\ Free(s \o t, S) <=> Free(s, S) /\ Free(t, S)
           /\ Once(s \o t, S) <=>
                 Once(s, S) /\ Once(t, S) /\ (Free(s, S) \/ Free(t, S))
  <1> DEFINE u == s \o t
  <1>1. /\ u \in Seq(T) /\ Len(u) = Len(s) + Len(t)
        /\ \A k \in 1..Len(s) : u[k] = s[k]
        /\ \A k \in 1..Len(t) : u[Len(s) + k] = t[k]
    <2>1. \A k \in 1..(Len(s) + Len(t)) : u[k] = IF k <= Len(s) THEN s[k] ELSE t[k - Len(s)]
      BY ConcatProperties
    <2>2. Len(s) \in Nat /\ Len(t) \in Nat
      BY LenProperties
    <2>3. u \in Seq(T) /\ Len(u) = Len(s) + Len(t)
      BY ConcatProperties
    <2> HIDE DEF u
    <2>4. ASSUME NEW k \in 1..Len(s)
          PROVE  u[k] = s[k]
      BY <2>1, <2>2, <2>4
    <2>5. ASSUME NEW k \in 1..Len(t)
          PROVE  u[Len(s) + k] = t[k]
      <3>1. Len(s) + k \in 1..(Len(s) + Len(t)) /\ ~(Len(s) + k <= Len(s))
            /\ (Len(s) + k) - Len(s) = k
        BY <2>2, <2>5
      <3> QED
        BY <2>1, <3>1
    <2> QED
      BY <2>3, <2>4, <2>5
  <1>2. /\ Len(s) \in Nat /\ Len(t) \in Nat
        /\ DOMAIN s = 1..Len(s) /\ DOMAIN t = 1..Len(t) /\ DOMAIN u = 1..(Len(s) + Len(t))
    BY <1>1, LenProperties
  <1> HIDE DEF u
  <1>3. \A k \in DOMAIN s : k \in DOMAIN u /\ u[k] = s[k]
    BY <1>1, <1>2
  <1>4. \A k \in DOMAIN t : Len(s) + k \in DOMAIN u /\ u[Len(s) + k] = t[k]
    BY <1>1, <1>2
  <1>5. ASSUME NEW k \in DOMAIN u
        PROVE  \/ k \in DOMAIN s /\ u[k] = s[k]
               \/ \E i \in DOMAIN t : k = Len(s) + i /\ u[k] = t[i]
    <2>1. CASE k <= Len(s)
      BY <2>1, <1>2, <1>3
    <2>2. CASE k > Len(s)
      <3>1. k - Len(s) \in DOMAIN t /\ k = Len(s) + (k - Len(s))
        BY <2>2, <1>2
      <3> QED
        BY <3>1, <1>4
    <2> QED
      BY <1>2, <2>1, <2>2
  <1>6. \A j \in DOMAIN s, k \in DOMAIN t : j # Len(s) + k
    BY <1>2
  <1>7. \A j, k \in DOMAIN t : Len(s) + j = Len(s) + k => j = k
    BY <1>2
  <1>8. Free(u, S) <=> Free(s, S) /\ Free(t, S)
    BY <1>3, <1>4, <1>5 DEF Free
  <1>9. Once(u, S) => Once(s, S)
    BY <1>3 DEF Once
  <1>10. Once(u, S) => Once(t, S)
    BY <1>4, <1>7 DEF Once
  <1>11. Once(u, S) => Free(s, S) \/ Free(t, S)
    <2> SUFFICES ASSUME Once(u, S), NEW j \in DOMAIN s, s[j] \in S, NEW k \in DOMAIN t, t[k] \in S
                 PROVE  FALSE
      BY DEF Free
    <2>1. j = Len(s) + k
      BY <1>3, <1>4 DEF Once
    <2> QED
      BY <2>1, <1>6
  <1>12. Once(s, S) /\ Once(t, S) /\ (Free(s, S) \/ Free(t, S)) => Once(u, S)
    <2> SUFFICES ASSUME Once(s, S), Once(t, S), Free(s, S) \/ Free(t, S),
                        NEW j \in DOMAIN u, NEW k \in DOMAIN u, u[j] \in S, u[k] \in S
                 PROVE  j = k
      BY DEF Once
    <2>1. CASE Free(s, S)
      <3>1. PICK a \in DOMAIN t : j = Len(s) + a /\ u[j] = t[a]
        BY <2>1, <1>5 DEF Free
      <3>2. PICK b \in DOMAIN t : k = Len(s) + b /\ u[k] = t[b]
        BY <2>1, <1>5 DEF Free
      <3>3. a = b
        BY <3>1, <3>2 DEF Once
      <3> QED
        BY <3>1, <3>2, <3>3
    <2>2. CASE Free(t, S)
      <3>1. j \in DOMAIN s /\ s[j] \in S /\ k \in DOMAIN s /\ s[k] \in S
        BY <2>2, <1>5 DEF Free
      <3> QED
        BY <3>1 DEF Once
    <2> QED
      BY <2>1, <2>2
  <1> QED
    BY <1>8, <1>9, <1>10, <1>11, <1>12 DEF u

LEMMA FreeAppend ==
    ASSUME NEW T, NEW s \in Seq(T), NEW x \in T, NEW S
    PROVE  /\ Free(Append(s, x), S) <=> Free(s, S) /\ x \notin S
           /\ Once(Append(s, x), S) <=> Once(s, S) /\ (Free(s, S) \/ x \notin S)
  <1>1. Append(s, x) = s \o <<x>> /\ <<x>> \in Seq(T)
    BY AppendProperties
  <1>2. /\ Free(s \o <<x>>, S) <=> Free(s, S) /\ Free(<<x>>, S)
        /\ Once(s \o <<x>>, S) <=>
              Once(s, S) /\ Once(<<x>>, S) /\ (Free(s, S) \/ Free(<<x>>, S))
    BY <1>1, FreeConcat
  <1>3. (Free(<<x>>, S) <=> x \notin S) /\ Once(<<x>>, S)
    BY FreeOne
  <1> QED
    BY <1>1, <1>2, <1>3

LEMMA FreeHead ==
    ASSUME NEW T, NEW s \in Seq(T), s # <<>>, NEW S
    PROVE  /\ Free(s, S) <=> Head(s) \notin S /\ Free(Tail(s), S)
           /\ Once(s, S) <=>
                 Once(Tail(s), S) /\ (Head(s) \notin S \/ Free(Tail(s), S))
  <1> DEFINE h == Head(s)
             t == Tail(s)
  <1>1. /\ h \in T /\ t \in Seq(T) /\ h = s[1] /\ Len(t) = Len(s) - 1
        /\ \A i \in 1..Len(t) : t[i] = s[i + 1]
    BY HeadTailProperties, Rest
  <1>2. <<h>> \in Seq(T) /\ Len(<<h>>) = 1 /\ <<h>>[1] = h
    BY <1>1
  <1>3. Len(s) \in Nat \ {0}
    BY LenProperties, EmptySeq
  <1> HIDE DEF h, t
  <1>4. s = <<h>> \o t
    <2>1. /\ <<h>> \o t \in Seq(T) /\ Len(<<h>> \o t) = 1 + Len(t)
          /\ \A k \in 1..(1 + Len(t)) :
                (<<h>> \o t)[k] = IF k <= 1 THEN <<h>>[k] ELSE t[k - 1]
      BY <1>1, <1>2, ConcatProperties
    <2> DEFINE u == <<h>> \o t
    <2>2. Len(u) = Len(s) /\ u \in Seq(T) /\ \A k \in 1..Len(s) :
             u[k] = IF k <= 1 THEN <<h>>[k] ELSE t[k - 1]
      BY <1>1, <1>3, <2>1
    <2> HIDE DEF u
    <2>3. ASSUME NEW k \in 1..Len(s)
          PROVE  u[k] = s[k]
      <3>1. CASE k = 1
        BY <1>1, <1>2, <2>2, <2>3, <3>1
      <3>2. CASE k # 1
        <4>1. k - 1 \in 1..Len(t) /\ (k - 1) + 1 = k /\ ~(k <= 1)
          BY <1>1, <1>3, <2>3, <3>2
        <4>2. t[k - 1] = s[(k - 1) + 1]
          BY <1>1, <4>1
        <4> QED
          BY <2>2, <4>1, <4>2
      <3> QED
        BY <3>1, <3>2
    <2>4. u = s
      BY <2>2, <2>3, SeqEqual
    <2> QED
      BY <2>4 DEF u
  <1>5. /\ Free(<<h>> \o t, S) <=> Free(<<h>>, S) /\ Free(t, S)
        /\ Once(<<h>> \o t, S) <=>
              /\ Once(<<h>>, S) /\ Once(t, S)
              /\ Free(<<h>>, S) \/ Free(t, S)
    BY <1>1, <1>2, FreeConcat
  <1> QED
    BY <1>4, <1>5, FreeOne DEF h, t

LEMMA WhatEnds ==
    /\ \A m \in Methods, ok \in BOOLEAN :
          /\ Reply(m, ok) \in EndingMessages => m \in EndingCalls
          /\ m = "remoteStart" => Reply(m, TRUE) \notin EndingMessages
    /\ \A m \in Methods : Error(m) \in EndingAnswers <=> m \in FatalCalls
    /\ \A n \in Nat : Validate(n) \notin EndingMessages /\ Validate(n).type # "joined"
    /\ Left \notin EndingMessages
    /\ Done \notin EndingAnswers /\ Done.type # "joined"
    /\ EndingAnswers \subseteq EndingMessages /\ FatalCalls \subseteq EndingCalls
  <1>1. \A m \in Methods, ok \in BOOLEAN :
           /\ Reply(m, ok) \in EndingMessages => m \in EndingCalls
           /\ m = "remoteStart" => Reply(m, TRUE) \notin EndingMessages
    <2> TAKE m \in Methods, ok \in BOOLEAN
    <2>1. ASSUME NEW b \in BOOLEAN
          PROVE  Reply(m, b).type = "reply" /\ Reply(m, b).method = m /\ Reply(m, b).ok = b
      BY MessageFields
    <2>2. Reply(m, ok) \in EndingMessages => m \in EndingCalls
      BY <2>1 DEF EndingMessages, EndingAnswers, EndingCalls
    <2>3. m = "remoteStart" => Reply(m, TRUE) \notin EndingMessages
      <3>1. Reply(m, TRUE).type = "reply" /\ Reply(m, TRUE).method = m /\ Reply(m, TRUE).ok
        BY <2>1
      <3> QED
        BY <3>1 DEF EndingMessages, EndingAnswers
    <2> QED
      BY <2>2, <2>3
  <1>2. \A m \in Methods : Error(m) \in EndingAnswers <=> m \in FatalCalls
    BY MessageFields, MessageTypes DEF EndingAnswers, FatalCalls
  <1>3. /\ \A n \in Nat : Validate(n) \notin EndingMessages /\ Validate(n).type # "joined"
        /\ Left \notin EndingMessages
        /\ Done \notin EndingAnswers /\ Done.type # "joined"
    BY MessageFields DEF EndingMessages, EndingAnswers
  <1>4. EndingAnswers \subseteq EndingMessages /\ FatalCalls \subseteq EndingCalls
    BY DEF EndingMessages, FatalCalls, EndingCalls
  <1> QED
    BY <1>1, <1>2, <1>3, <1>4

\* The daemon's errors end the test if a call did that was to be answered.
LEMMA ErrorsEnd ==
    ASSUME NEW ms \in Seq(Methods)
    PROVE  /\ Free(Errors(ms), EndingAnswers) <=> Free(ms, FatalCalls)
           /\ Once(Errors(ms), EndingAnswers) <=> Once(ms, FatalCalls)
  <1>1. /\ DOMAIN Errors(ms) = DOMAIN ms
        /\ \A k \in DOMAIN ms : Errors(ms)[k] \in EndingAnswers <=> ms[k] \in FatalCalls
    BY ErrorsType, WhatEnds
  <1> QED
    BY <1>1 DEF Free, Once

EndTypes ==
    /\ inbox \in Seq(Messages) /\ calls \in Seq(Methods) /\ dones \in Nat /\ busy \in BOOLEAN
    /\ main \in {"loop", "spawned"}

LEMMA EndsTyped == ASSUME RInv PROVE EndTypes
BY DEF RInv, TypeOK, LinkTypes, RemoteTypes, RunnerTypes, RunnerFlags, EndTypes

-----------------------------------------------------------------------------
(* Steps of the program.                                                   *)

\* A call is answered: what it was about to end, the answer is.
LEMMA ServedEnds ==
    ASSUME RInv, EndBook, process = "connected", calls # <<>>, NEW ok \in BOOLEAN, Answer(ok),
           \/ main = "loop"
           \/ main = "spawned" /\ ok,
           main' = "loop", UNCHANGED <<process, worker, busy, dones>>
    PROVE  EndBook'
  <1>1. /\ EndTypes /\ calls' = Tail(calls) /\ inbox' = Append(inbox, Reply(Head(calls), ok))
        /\ Head(calls) \in Methods /\ Tail(calls) \in Seq(Methods)
    BY EndsTyped, Rest DEF Answer, EndTypes
  <1>2. Reply(Head(calls), ok) \in Messages
    BY <1>1, MessageTypes
  <1>3. /\ Free(inbox', EndingMessages) <=>
              Free(inbox, EndingMessages) /\ Reply(Head(calls), ok) \notin EndingMessages
        /\ Once(inbox', EndingMessages) <=>
              /\ Once(inbox, EndingMessages)
              /\ Free(inbox, EndingMessages) \/ Reply(Head(calls), ok) \notin EndingMessages
    BY <1>1, <1>2, FreeAppend DEF EndTypes
  <1>4. Unserved' = Tail(calls)
    BY <1>1 DEF Unserved
  <1>5. CASE main = "loop"
    <2>1. /\ Free(calls, EndingCalls) <=>
                Head(calls) \notin EndingCalls /\ Free(Tail(calls), EndingCalls)
          /\ Once(calls, EndingCalls) <=>
                /\ Once(Tail(calls), EndingCalls)
                /\ Head(calls) \notin EndingCalls \/ Free(Tail(calls), EndingCalls)
      BY <1>1, FreeHead DEF EndTypes
    <2>2. Unserved = calls
      BY <1>5 DEF Unserved
    <2>3. Reply(Head(calls), ok) \in EndingMessages => Head(calls) \in EndingCalls
      BY <1>1, WhatEnds
    <2> QED
      BY <1>3, <1>4, <2>1, <2>2, <2>3
      DEF EndBook, EndUnborn, EndConnected, EndSpawned, EndExited, EndCounted, EndIsOnePlace,
          NoEnd, Over
  <1>6. CASE main = "spawned" /\ ok
    <2>1. Head(calls) = "remoteStart" /\ Unserved = Tail(calls)
      BY <1>6 DEF EndBook, EndSpawned, Unserved
    <2>2. Reply("remoteStart", TRUE) \notin EndingMessages
      BY WhatEnds DEF Methods
    <2>3. Reply(Head(calls), ok) \notin EndingMessages
      BY <1>6, <2>1, <2>2
    <2> QED
      BY <1>3, <1>4, <2>1, <2>3
      DEF EndBook, EndUnborn, EndConnected, EndSpawned, EndExited, EndCounted, EndIsOnePlace,
          NoEnd, Over
  <1> QED
    BY <1>5, <1>6

\* The program goes: of the calls, the worker and the done signal only a
\* fatal call is left, as an error.
LEMMA LeaveEnds ==
    ASSUME RInv, EndBook, process \in {"starting", "connected"}, NEW code, Leave(code),
           UNCHANGED <<main, worker, busy, dones>>
    PROVE  EndBook'
  <1>1. EndTypes /\ process' = "exited" /\ calls' = <<>>
    BY EndsTyped DEF Leave
  <1>2. Once(inbox', EndingAnswers) /\ (Over => Free(inbox', EndingAnswers))
    <2>1. CASE process = "starting"
      <3>1. inbox' = <<>>
        BY <2>1 DEF Leave, RInv, LinkBook
      <3> QED
        BY <3>1, FreeEmpty
    <2>2. CASE process = "connected"
      <3>1. inbox' = inbox \o <<Left>> \o Errors(calls)
        BY <2>2 DEF Leave
      <3>2. <<Left>> \in Seq(Messages) /\ Errors(calls) \in Seq(Messages)
        BY <1>1, MessageTypes, ErrorsType DEF EndTypes
      <3>3. /\ inbox \o <<Left>> \in Seq(Messages)
            /\ Free(inbox \o <<Left>>, EndingAnswers) <=> Free(inbox, EndingAnswers)
            /\ Once(inbox \o <<Left>>, EndingAnswers) <=> Once(inbox, EndingAnswers)
        <4>1. Free(<<Left>>, EndingAnswers) /\ Once(<<Left>>, EndingAnswers)
          BY FreeOne, WhatEnds
        <4> QED
          BY <1>1, <3>2, <4>1, FreeConcat, ConcatProperties DEF EndTypes
      <3> DEFINE box == inbox \o <<Left>>
      <3>4. inbox' = box \o Errors(calls)
        BY <3>1
      <3> HIDE DEF box
      <3>5. /\ Free(inbox', EndingAnswers) <=>
                  Free(box, EndingAnswers) /\ Free(Errors(calls), EndingAnswers)
            /\ Once(inbox', EndingAnswers) <=>
                  /\ Once(box, EndingAnswers) /\ Once(Errors(calls), EndingAnswers)
                  /\ Free(box, EndingAnswers) \/ Free(Errors(calls), EndingAnswers)
        BY <3>2, <3>3, <3>4, FreeConcat DEF box
      <3>6. /\ Free(inbox', EndingAnswers) <=>
                  Free(inbox, EndingAnswers) /\ Free(calls, FatalCalls)
            /\ Once(inbox', EndingAnswers) <=>
                  /\ Once(inbox, EndingAnswers) /\ Once(calls, FatalCalls)
                  /\ Free(inbox, EndingAnswers) \/ Free(calls, FatalCalls)
        BY <1>1, <3>3, <3>5, ErrorsEnd DEF EndTypes, box
      <3>7. CASE main = "loop"
        <4>1. Unserved = calls
          BY <3>7 DEF Unserved
        <4>2. /\ Free(calls, EndingCalls) => Free(calls, FatalCalls)
              /\ Once(calls, EndingCalls) => Once(calls, FatalCalls)
              /\ Free(inbox, EndingMessages) => Free(inbox, EndingAnswers)
              /\ Once(inbox, EndingMessages) => Once(inbox, EndingAnswers)
          BY WhatEnds, FreeSubset
        <4> QED
          BY <2>2, <3>6, <4>1, <4>2 DEF EndBook, EndConnected, EndIsOnePlace, NoEnd
      <3>8. CASE main = "spawned"
        <4>1. /\ Free(inbox, EndingAnswers) /\ calls # <<>> /\ ~Over
              /\ Free(Tail(calls), FatalCalls)
          BY <2>2, <3>8 DEF EndBook, EndSpawned, Free
        <4>2. Once(inbox, EndingAnswers) /\ Once(Tail(calls), FatalCalls)
          BY <4>1, FreeOnce
        <4>3. Once(calls, FatalCalls)
          BY <1>1, <4>1, <4>2, FreeHead DEF EndTypes
        <4> QED
          BY <3>6, <4>1, <4>2, <4>3
      <3> QED
        BY <1>1, <3>7, <3>8 DEF EndTypes
    <2> QED
      BY <2>1, <2>2
  <1> QED
    BY <1>1, <1>2 DEF EndBook, EndUnborn, EndConnected, EndSpawned, EndExited, EndCounted, Over

\* The worker sends a signal, or does not go on.
LEMMA WorkerEnds ==
    ASSUME RInv, EndBook, process = "connected", worker # "none",
           UNCHANGED <<process, calls, main, busy, dones>>,
           \/ inbox' = inbox /\ worker' # "testing"
           \/ /\ worker' = worker
              /\ \E n \in Nat : inbox' = Append(inbox, Validate(n))
           \/ /\ worker = "testing" /\ worker' # "testing"
              /\ inbox' = Append(inbox, Done)
    PROVE  EndBook'
  <1>1. EndTypes
    BY EndsTyped
  <1>2. Unserved' = Unserved
    BY DEF Unserved
  <1>3. CASE inbox' = inbox /\ worker' # "testing"
    BY <1>2, <1>3
    DEF EndBook, EndUnborn, EndConnected, EndSpawned, EndExited, EndCounted, EndIsOnePlace,
        NoEnd, Over
  <1>4. ASSUME NEW m \in Messages, inbox' = Append(inbox, m), m \notin EndingAnswers,
               m.type # "joined"
        PROVE  /\ Free(inbox', EndingMessages) <=>
                     Free(inbox, EndingMessages) /\ m \notin EndingMessages
               /\ Once(inbox', EndingMessages) <=>
                     /\ Once(inbox, EndingMessages)
                     /\ Free(inbox, EndingMessages) \/ m \notin EndingMessages
               /\ main = "spawned" =>
                     \A k \in DOMAIN inbox' :
                         inbox'[k] \notin EndingAnswers /\ inbox'[k].type # "joined"
    <2>1. ASSUME main = "spawned"
          PROVE  \A k \in DOMAIN inbox' :
                     inbox'[k] \notin EndingAnswers /\ inbox'[k].type # "joined"
      <3> DEFINE S == {n \in Messages : n \notin EndingAnswers /\ n.type # "joined"}
      <3>1. \A k \in DOMAIN inbox : inbox[k] \in Messages
        BY <1>1, LenProperties DEF EndTypes
      <3>2. \A k \in DOMAIN inbox : inbox[k] \in S
        BY <2>1, <3>1 DEF EndBook, EndSpawned
      <3>3. m \in S
        BY <1>4
      <3> HIDE DEF S
      <3>4. \A k \in DOMAIN inbox' : inbox'[k] \in S
        BY <1>1, <1>4, <3>2, <3>3, AppendedOne DEF EndTypes
      <3> QED
        BY <3>4 DEF S
    <2> QED
      BY <1>1, <1>4, <2>1, FreeAppend DEF EndTypes
  <1>5. ASSUME NEW n \in Nat, worker' = worker, inbox' = Append(inbox, Validate(n))
        PROVE  EndBook'
    <2>1. Validate(n) \in Messages /\ Validate(n) \notin EndingMessages
          /\ Validate(n) \notin EndingAnswers /\ Validate(n).type # "joined"
      BY MessageTypes, WhatEnds
    <2>2. /\ Free(inbox', EndingMessages) <=> Free(inbox, EndingMessages)
          /\ Once(inbox', EndingMessages) <=> Once(inbox, EndingMessages)
          /\ main = "spawned" =>
                     \A k \in DOMAIN inbox' :
                         inbox'[k] \notin EndingAnswers /\ inbox'[k].type # "joined"
      BY <1>4, <1>5, <2>1
    <2> QED
      BY <1>2, <1>5, <2>2
      DEF EndBook, EndUnborn, EndConnected, EndSpawned, EndExited, EndCounted, EndIsOnePlace,
          NoEnd, Over
  <1>6. ASSUME worker = "testing", worker' # "testing", inbox' = Append(inbox, Done)
        PROVE  EndBook'
    <2>1. Done \in Messages /\ Done \notin EndingAnswers /\ Done.type # "joined"
      BY MessageTypes, WhatEnds
    <2>2. Free(inbox, EndingMessages) /\ Free(Unserved, EndingCalls) /\ ~Over
      BY <1>6 DEF EndBook, EndConnected, EndIsOnePlace, NoEnd
    <2>3. Once(inbox, EndingMessages)
      BY <2>2, FreeOnce
    <2>4. /\ Once(inbox', EndingMessages)
          /\ main = "spawned" =>
                     \A k \in DOMAIN inbox' :
                         inbox'[k] \notin EndingAnswers /\ inbox'[k].type # "joined"
      BY <1>4, <1>6, <2>1, <2>2, <2>3
    <2> QED
      BY <1>2, <1>6, <2>2, <2>4
      DEF EndBook, EndUnborn, EndConnected, EndSpawned, EndExited, EndCounted, EndIsOnePlace,
          NoEnd, Over
  <1> QED
    BY <1>3, <1>5, <1>6

LEMMA ProgramEnds ==
    ASSUME RInv, EndBook, Undisturbed, RemoteNext, UNCHANGED runnerVars
    PROVE  EndBook'
  <1>1. EndTypes /\ UNCHANGED <<busy, dones>>
    BY EndsTyped DEF runnerVars, historyVars
  <1>2. CASE Connect
    <2>1. /\ process = "starting" /\ process' = "connected" /\ inbox' = Append(inbox, Joined)
          /\ UNCHANGED <<calls, main, worker>> /\ inbox = <<>>
      BY <1>2 DEF Connect, Emit, RInv, LinkBook, remoteVars
    <2>2. calls = <<>> /\ ~Over /\ worker = "none" /\ main = "loop"
      BY <2>1 DEF EndBook, EndUnborn
    <2>3. inbox' = <<Joined>> /\ Unserved' = <<>>
      BY <2>1, <2>2, Single DEF Unserved
    <2>4. Once(inbox', EndingMessages) /\ Once(Unserved', EndingCalls)
          /\ Free(Unserved', EndingCalls)
      BY <2>3, FreeOne, FreeEmpty
    <2> QED
      BY <1>1, <2>1, <2>2, <2>4
      DEF EndBook, EndUnborn, EndConnected, EndSpawned, EndExited, EndCounted, EndIsOnePlace, Over
  <1>3. CASE HandleSetUp \/ HandleStartRefused \/ HandleStop \/ HandleTearDown
    <2>1. /\ process = "connected" /\ main = "loop" /\ calls # <<>>
          /\ \E ok \in BOOLEAN : Answer(ok)
          /\ UNCHANGED <<process, main, worker>>
      BY <1>3 DEF HandleSetUp, HandleStartRefused, HandleStop, HandleTearDown, Serving
    <2> QED
      BY <1>1, <2>1, ServedEnds
  <1>4. CASE HandleStart
    <2>1. /\ process = "connected" /\ main = "loop" /\ calls # <<>>
          /\ Head(calls) = "remoteStart" /\ main' = "spawned" /\ worker' = "testing"
          /\ UNCHANGED <<process, calls, inbox>>
      BY <1>4 DEF HandleStart, Serving
    <2>2. Unserved = calls /\ Unserved' = Tail(calls)
      BY <2>1 DEF Unserved
    <2>3. /\ Free(calls, EndingCalls) <=>
                Head(calls) \notin EndingCalls /\ Free(Tail(calls), EndingCalls)
          /\ Once(calls, EndingCalls) <=>
                /\ Once(Tail(calls), EndingCalls)
                /\ Head(calls) \notin EndingCalls \/ Free(Tail(calls), EndingCalls)
          /\ Head(calls) \in EndingCalls
      BY <1>1, <2>1, FreeHead DEF EndTypes, EndingCalls
    <2>4. /\ Free(inbox, EndingMessages) /\ Once(inbox, EndingMessages)
          /\ Free(Tail(calls), EndingCalls) /\ Once(Tail(calls), EndingCalls) /\ ~Over
      BY <2>1, <2>2, <2>3 DEF EndBook, EndConnected, EndIsOnePlace, NoEnd
    <2>5. Free(Tail(calls), FatalCalls)
      BY <2>4, WhatEnds, FreeSubset
    <2>6. \A k \in DOMAIN inbox : inbox[k] \notin EndingAnswers /\ inbox[k].type # "joined"
      <3>1. \A k \in DOMAIN inbox : inbox[k] \in Messages
        BY <1>1, LenProperties DEF EndTypes
      <3> QED
        BY <2>4, <3>1 DEF Free, EndingMessages
    <2> QED
      BY <1>1, <2>1, <2>2, <2>4, <2>5, <2>6
      DEF EndBook, EndUnborn, EndConnected, EndSpawned, EndExited, EndCounted, EndIsOnePlace, Over
  <1>5. CASE StartReturns
    <2>1. /\ process = "connected" /\ main = "spawned" /\ main' = "loop" /\ Answer(TRUE)
          /\ UNCHANGED <<process, worker>>
      BY <1>5 DEF StartReturns, Undisturbed
    <2>2. calls # <<>>
      BY <2>1 DEF EndBook, EndSpawned
    <2> QED
      BY <1>1, <2>1, <2>2, ServedEnds
  <1>6. CASE Exit \/ Crash
    <2>1. /\ process \in {"starting", "connected"} /\ \E code \in {0, 1} : Leave(code)
          /\ UNCHANGED <<main, worker>>
      BY <1>6 DEF Exit, Crash, remoteVars
    <2> QED
      BY <1>1, <2>1, LeaveEnds
  <1>7. CASE WorkerStep \/ WorkerHangs
    <2>1. workerRun \in Nat
      BY DEF RInv, TypeOK, RemoteTypes
    <2>2. /\ process = "connected" /\ worker # "none"
          /\ UNCHANGED <<process, calls, main>>
          /\ \/ inbox' = inbox /\ worker' # "testing"
             \/ worker' = worker /\ inbox' = Append(inbox, Validate(workerRun))
             \/ /\ worker = "testing" /\ worker' # "testing"
                /\ inbox' = Append(inbox, Done)
      BY <1>7
      DEF WorkerStep, WorkerHangs, WorkerValidates, WorkerDone, WorkerReturns, WorkerRuns, Emit
    <2> QED
      BY <1>1, <2>1, <2>2, WorkerEnds
  <1> QED
    BY <1>2, <1>3, <1>4, <1>5, <1>6, <1>7 DEF RemoteNext, RemoteStep

-----------------------------------------------------------------------------
(* Steps of the runner.                                                    *)

\* A callback for the first message calls at most one method: what the
\* message was about to end, the call is.
LEMMA CallbackEnds ==
    ASSUME RInv, EndBook, inbox # <<>>, NEW expected, NEW ms \in Seq(Methods),
           Exchange(Tail(inbox), expected, ms), Once(ms, EndingCalls), Once(ms, FatalCalls),
           UNCHANGED <<process, main, worker>>,
           Free(ms, EndingCalls) \/ Head(inbox) \in EndingMessages,
           Free(ms, FatalCalls) \/ Head(inbox) \in EndingAnswers
               \/ (process = "connected" /\ Head(inbox).type = "joined"),
           \/ UNCHANGED <<busy, dones>>
           \/ /\ Head(inbox) \in EndingAnswers /\ Free(ms, EndingCalls)
              /\ \/ busy' /\ dones' = dones
                 \/ ~busy' /\ dones' = dones + 1
    PROVE  EndBook'
  <1>1. /\ EndTypes /\ Tail(inbox) \in Seq(Messages) /\ EndingAnswers \subseteq EndingMessages
        /\ DOMAIN inbox # {} /\ Head(inbox) = inbox[1] /\ 1 \in DOMAIN inbox
    BY EndsTyped, Rest, WhatEnds DEF EndTypes
  <1>2. process \in {"connected", "exited"}
    BY DEF RInv, TypeOK, LinkTypes, LinkBook
  <1>3. ASSUME NEW S
        PROVE  /\ Free(inbox, S) <=> Head(inbox) \notin S /\ Free(Tail(inbox), S)
               /\ Once(inbox, S) <=>
                     /\ Once(Tail(inbox), S)
                     /\ Head(inbox) \notin S \/ Free(Tail(inbox), S)
    BY <1>1, FreeHead DEF EndTypes
  <1>4. CASE process = "connected"
    <2>1. inbox' = Tail(inbox) /\ calls' = calls \o ms
      BY <1>4 DEF Exchange
    <2>2. Unserved \in Seq(Methods) /\ Unserved' = Unserved \o ms
      <3>1. CASE main = "loop"
        BY <1>1, <2>1, <3>1 DEF Unserved, EndTypes
      <3>2. CASE main = "spawned"
        <4>1. calls # <<>> /\ calls \in Seq(Methods)
          BY <1>1, <1>4, <3>2 DEF EndBook, EndSpawned, EndTypes
        <4>2. Tail(calls \o ms) = Tail(calls) \o ms
          BY <4>1
        <4> QED
          BY <2>1, <3>2, <4>1, <4>2, Rest DEF Unserved
      <3> QED
        BY <1>1, <3>1, <3>2 DEF EndTypes
    <2>3. /\ Free(Unserved', EndingCalls) <=> Free(Unserved, EndingCalls) /\ Free(ms, EndingCalls)
          /\ Once(Unserved', EndingCalls) <=>
                /\ Once(Unserved, EndingCalls) /\ Once(ms, EndingCalls)
                /\ Free(Unserved, EndingCalls) \/ Free(ms, EndingCalls)
      BY <2>2, FreeConcat
    <2>4. EndIsOnePlace' /\ (NoEnd => NoEnd' /\ Free(ms, EndingCalls))
      BY <1>3, <1>4, <2>1, <2>3 DEF EndBook, EndConnected, EndIsOnePlace, NoEnd
    <2>5. Head(inbox) \in EndingMessages /\ Free(ms, EndingCalls) => NoEnd'
      BY <1>3, <1>4, <2>1, <2>3 DEF EndBook, EndConnected, EndIsOnePlace, NoEnd
    <2>6. Head(inbox) \in EndingMessages => ~Over
      BY <1>3, <1>4 DEF EndBook, EndConnected, NoEnd
    <2>7. Over' => NoEnd'
      BY <1>1, <1>4, <2>4, <2>5 DEF EndBook, EndConnected, Over
    <2>8. EndCounted'
      BY <1>1, <2>6 DEF EndBook, EndCounted, Over, EndTypes
    <2>9. EndSpawned'
      <3> SUFFICES ASSUME main = "spawned"
                   PROVE  /\ \A k \in DOMAIN inbox' :
                                inbox'[k] \notin EndingAnswers /\ inbox'[k].type # "joined"
                          /\ calls' # <<>> /\ Head(calls') = "remoteStart"
                          /\ Free(Tail(calls'), FatalCalls)
                          /\ ~Over'
        BY DEF EndSpawned
      <3>1. /\ \A k \in DOMAIN inbox : inbox[k] \notin EndingAnswers /\ inbox[k].type # "joined"
            /\ calls # <<>> /\ Head(calls) = "remoteStart"
            /\ Free(Tail(calls), FatalCalls) /\ ~Over
        BY <1>4 DEF EndBook, EndSpawned
      <3>2. Head(inbox) \notin EndingAnswers /\ Head(inbox).type # "joined"
        BY <1>1, <3>1
      <3>3. Free(ms, FatalCalls) /\ ~Over'
        BY <1>1, <3>1, <3>2 DEF Over
      <3>4. \A k \in DOMAIN Tail(inbox) : k + 1 \in DOMAIN inbox /\ Tail(inbox)[k] = inbox[k + 1]
        BY <1>1, Rest DEF EndTypes
      <3>5. Unserved = Tail(calls) /\ Unserved' = Tail(calls')
        BY <1>4 DEF Unserved
      <3>6. Free(Tail(calls'), FatalCalls)
        <4>1. Free(Unserved \o ms, FatalCalls) <=>
                 Free(Unserved, FatalCalls) /\ Free(ms, FatalCalls)
          BY <2>2, FreeConcat
        <4> QED
          BY <2>2, <3>1, <3>3, <3>5, <4>1
      <3>7. calls' # <<>> /\ Head(calls') = Head(calls)
        BY <1>1, <2>1, <3>1 DEF EndTypes
      <3> QED
        BY <2>1, <3>1, <3>3, <3>4, <3>6, <3>7
    <2> QED
      BY <1>4, <2>4, <2>7, <2>8, <2>9 DEF EndBook, EndUnborn, EndConnected, EndExited
  <1>5. CASE process = "exited"
    <2>1. inbox' = Tail(inbox) \o Errors(ms) /\ calls' = calls
      BY <1>5 DEF Exchange
    <2>2. /\ Free(inbox', EndingAnswers) <=>
                Free(Tail(inbox), EndingAnswers) /\ Free(ms, FatalCalls)
          /\ Once(inbox', EndingAnswers) <=>
                /\ Once(Tail(inbox), EndingAnswers) /\ Once(ms, FatalCalls)
                /\ Free(Tail(inbox), EndingAnswers) \/ Free(ms, FatalCalls)
      <3>1. Errors(ms) \in Seq(Messages)
        BY ErrorsType
      <3>2. /\ Free(inbox', EndingAnswers) <=>
                  Free(Tail(inbox), EndingAnswers) /\ Free(Errors(ms), EndingAnswers)
            /\ Once(inbox', EndingAnswers) <=>
                  /\ Once(Tail(inbox), EndingAnswers) /\ Once(Errors(ms), EndingAnswers)
                  /\ Free(Tail(inbox), EndingAnswers) \/ Free(Errors(ms), EndingAnswers)
        BY <1>1, <2>1, <3>1, FreeConcat
      <3> QED
        BY <3>2, ErrorsEnd
    <2>3. /\ Once(inbox, EndingAnswers)
          /\ Over => Free(inbox, EndingAnswers)
          /\ Free(ms, FatalCalls) \/ Head(inbox) \in EndingAnswers
      BY <1>5 DEF EndBook, EndExited
    <2>4. Free(ms, EndingCalls) => Free(ms, FatalCalls)
      BY WhatEnds, FreeSubset
    <2>5. Once(inbox', EndingAnswers) /\ (Over' => Free(inbox', EndingAnswers))
      BY <1>1, <1>3, <2>2, <2>3, <2>4 DEF Over
    <2>6. EndCounted'
      BY <1>1, <1>3, <2>3 DEF EndBook, EndCounted, Over, EndTypes
    <2> QED
      BY <1>5, <2>1, <2>5, <2>6 DEF EndBook, EndUnborn, EndConnected, EndSpawned, EndExited
  <1> QED
    BY <1>2, <1>4, <1>5

\* What each callback for a message calls, and whether it ends the test.
LEMMA RunnerEnds ==
    ASSUME RInv, EndBook, Undisturbed, RunnerNext, UNCHANGED remoteVars
    PROVE  EndBook'
  <1>0. /\ EndTypes /\ UNCHANGED <<main, worker>>
        /\ \A S : Once(<<>>, S) /\ Free(<<>>, S) /\ <<>> \in Seq(Methods)
    BY EndsTyped, FreeEmpty DEF remoteVars
  <1>1. /\ IfRemote(<<"remoteStart">>) \in {<<>>, <<"remoteStart">>}
        /\ IfRemote(<<"remoteStop">>) \in {<<>>, <<"remoteStop">>}
        /\ IfRemote(<<"remoteTearDown">>) \in {<<>>, <<"remoteTearDown">>}
    BY DEF IfRemote
  <1>2. ASSUME NEW m \in Methods, NEW S
        PROVE  <<m>> \in Seq(Methods) /\ Once(<<m>>, S) /\ (Free(<<m>>, S) <=> m \notin S)
    BY FreeOne
  <1>3. ASSUME inbox # <<>>
        PROVE  LET m == Head(inbox)
               IN  /\ m \in Messages
                   /\ m.type \in {"joined", "done"} => m \in EndingMessages
                   /\ m.type = "reply" /\ m.method \in {"remoteSetUp", "remoteStop"}
                         => m \in EndingAnswers /\ m \in EndingMessages
                   /\ m.type = "reply" /\ m.method = "remoteStart" /\ ~m.ok => m \in EndingAnswers
                   /\ m.type = "error" /\ m.method \in FatalCalls => m \in EndingAnswers
    BY <1>0, <1>3, Rest DEF EndTypes, EndingAnswers, EndingMessages, FatalCalls
  <1>4. ASSUME Run \/ RunFails \/ KillEnds \/ KillGivesUp
        PROVE  EndBook'
    <2>1. CASE Run
      <3>1. process = "unborn"
        BY <2>1 DEF Run, RInv, LinkBook
      <3>2. process' = "starting" /\ UNCHANGED <<calls, inbox, busy, dones>>
        BY <2>1 DEF Run, historyVars
      <3> QED
        BY <1>0, <3>1, <3>2
        DEF EndBook, EndUnborn, EndConnected, EndSpawned, EndExited, EndCounted, Over
    <2>2. CASE RunFails
      <3>1. UNCHANGED <<process, calls, inbox, busy, dones>>
        BY <2>2 DEF RunFails, linkVars, historyVars
      <3> QED
        BY <1>0, <3>1
        DEF EndBook, EndUnborn, EndConnected, EndSpawned, EndExited, EndCounted, Over,
            EndIsOnePlace, NoEnd, Unserved
    <2>3. CASE KillEnds
      <3>1. /\ process = "exited" /\ busy /\ ~busy' /\ dones' = dones + 1
            /\ UNCHANGED <<process, calls, inbox>>
        BY <2>3 DEF KillEnds, AfterKill, FinishTearDown, linkVars
      <3> QED
        BY <1>0, <3>1
        DEF EndBook, EndUnborn, EndConnected, EndSpawned, EndExited, EndCounted, Over, EndTypes
    <2>4. CASE KillGivesUp
      <3>1. /\ process \in {"starting", "connected"}
            /\ busy /\ ~busy' /\ dones' = dones + 1
            /\ UNCHANGED <<process, calls, inbox>>
        BY <2>4 DEF KillGivesUp, AfterKill, FinishTearDown, linkVars
      <3>2. /\ process = "connected" /\ main = "loop" /\ dones = 0
            /\ EndIsOnePlace /\ NoEnd
        BY <1>0, <3>1
        DEF EndBook, EndUnborn, EndConnected, EndSpawned, EndCounted, Over, EndTypes
      <3>3. EndIsOnePlace' /\ NoEnd'
        BY <1>0, <3>1, <3>2 DEF EndIsOnePlace, NoEnd, Unserved
      <3> QED
        BY <1>0, <3>1, <3>2, <3>3
        DEF EndBook, EndUnborn, EndConnected, EndSpawned, EndExited, EndCounted, Over
    <2> QED
      BY <1>4, <2>1, <2>2, <2>3, <2>4
  <1>5. ASSUME PollSubProcess
        PROVE  EndBook'
    <2>1. /\ process = "exited" /\ UNCHANGED <<process, busy, dones>>
          /\ Exchange(inbox, pending, IfRemote(<<"remoteStop">>))
      BY <1>5 DEF PollSubProcess, StopFrom, Unchanged, historyVars
    <2> DEFINE ms == IfRemote(<<"remoteStop">>)
    <2>2. ms \in Seq(Methods) /\ Free(ms, FatalCalls)
      BY <1>0, <1>1, <1>2 DEF Methods, FatalCalls
    <2>3. inbox' = inbox \o Errors(ms) /\ calls' = calls
      BY <2>1 DEF Exchange
    <2> HIDE DEF ms
    <2>4. Errors(ms) \in Seq(Messages) /\ Free(Errors(ms), EndingAnswers)
      BY <2>2, ErrorsType, ErrorsEnd
    <2>5. Once(Errors(ms), EndingAnswers)
      BY <2>4, FreeOnce
    <2>6. /\ Free(inbox', EndingAnswers) <=> Free(inbox, EndingAnswers)
          /\ Once(inbox', EndingAnswers) <=> Once(inbox, EndingAnswers)
      BY <1>0, <2>3, <2>4, <2>5, FreeConcat DEF EndTypes
    <2> QED
      BY <2>1, <2>3, <2>6
      DEF EndBook, EndUnborn, EndConnected, EndSpawned, EndExited, EndCounted, Over
  <1>6. CASE NewRemoteTest
    <2>1. /\ inbox # <<>> /\ Head(inbox).type = "joined" /\ process = "connected"
          /\ UNCHANGED <<process, busy, dones>>
          /\ \E ms \in {<<"remoteSetUp">>, <<"remoteStop">>} : Exchange(Tail(inbox), pending, ms)
      BY <1>6 DEF NewRemoteTest, Incoming, Unchanged, historyVars
    <2>2. ASSUME NEW m \in {"remoteSetUp", "remoteStop"}
          PROVE  <<m>> \in Seq(Methods) /\ Once(<<m>>, EndingCalls) /\ Once(<<m>>, FatalCalls)
      BY <1>2 DEF Methods
    <2> QED
      BY <1>0, <1>3, <2>1, <2>2, CallbackEnds
  <1>7. CASE NewRemoteTestLate \/ RemovedRemoteTest \/ StartReply \/ IgnoredReply \/ RemoteValidate
    <2>1. /\ inbox # <<>> /\ UNCHANGED <<process, busy, dones>>
          /\ \E expected : Exchange(Tail(inbox), expected, <<>>)
      BY <1>7
      DEF NewRemoteTestLate, RemovedRemoteTest, StartReply, IgnoredReply, RemoteValidate,
          Answers, Incoming, Unchanged, historyVars
    <2> QED
      BY <1>0, <2>1, CallbackEnds
  <1>8. CASE RemoteDone
    <2>1. /\ inbox # <<>> /\ Head(inbox).type = "done" /\ UNCHANGED <<process, busy, dones>>
          /\ Exchange(Tail(inbox), pending, IfRemote(<<"remoteStop">>))
      BY <1>8 DEF RemoteDone, Incoming, StopFrom, Unchanged, historyVars
    <2>2. /\ Once(<<"remoteStop">>, EndingCalls) /\ Once(<<"remoteStop">>, FatalCalls)
          /\ Free(<<"remoteStop">>, FatalCalls) /\ <<"remoteStop">> \in Seq(Methods)
      BY <1>2 DEF Methods, FatalCalls
    <2> QED
      BY <1>0, <1>1, <1>3, <2>1, <2>2, CallbackEnds
  <1>9. CASE SetUpReply \/ StopReplyNext
    <2>1. /\ inbox # <<>> /\ Head(inbox).type = "reply"
          /\ Head(inbox).method \in {"remoteSetUp", "remoteStop"}
          /\ UNCHANGED <<process, busy, dones>>
          /\ \E expected : \E ms \in {<<>>, <<"remoteStart">>} : Exchange(Tail(inbox), expected, ms)
      BY <1>1, <1>9
      DEF SetUpReply, StopReplyNext, Answers, Incoming, Start, Unchanged, historyVars
    <2>2. /\ Once(<<"remoteStart">>, EndingCalls) /\ Once(<<"remoteStart">>, FatalCalls)
          /\ <<"remoteStart">> \in Seq(Methods)
      BY <1>2 DEF Methods
    <2> QED
      BY <1>0, <1>3, <2>1, <2>2, CallbackEnds
  <1>10. CASE FatalReply \/ StopReplyLast
    <2>1. /\ inbox # <<>> /\ Head(inbox) \in EndingAnswers /\ process' = process /\ ~busy
          /\ \E expected, timer : TearDown(Tail(inbox), expected, timer)
      BY <1>3, <1>10 DEF FatalReply, StopReplyLast, Answers, Incoming, Unchanged, Idle, FatalCalls
    <2>2. /\ \E expected : \E ms \in {<<>>, <<"remoteTearDown">>} :
                Exchange(Tail(inbox), expected, ms)
          /\ \/ busy' /\ dones' = dones
             \/ ~busy' /\ dones' = dones + 1
      BY <1>1, <2>1 DEF TearDown, FinishTearDown
    <2>3. ASSUME NEW ms \in {<<>>, <<"remoteTearDown">>}
          PROVE  /\ Once(ms, EndingCalls) /\ Once(ms, FatalCalls) /\ ms \in Seq(Methods)
                 /\ Free(ms, EndingCalls) /\ Free(ms, FatalCalls)
      BY <1>0, <1>2 DEF Methods, EndingCalls, FatalCalls
    <2> QED
      BY <1>0, <2>1, <2>2, <2>3, CallbackEnds
  <1>11. ~(ReplyTimeout \/ AsyncSetupTimeout \/ TestTimeout \/ AbortTest)
    BY DEF Undisturbed, ReplyTimeout, AsyncSetupTimeout, TestTimeout, AbortTest
  <1> QED
    BY <1>4, <1>5, <1>6, <1>7, <1>8, <1>9, <1>10, <1>11 DEF RunnerNext, RunnerDispatch

LEMMA AlwaysEndsOnce == Spec => [](Undisturbed => EndBook)
  <1>1. Init => EndBook
    <2> SUFFICES ASSUME Init
                 PROVE  EndBook
      OBVIOUS
    <2>1. /\ process = "unborn" /\ calls = <<>> /\ ~busy /\ dones = 0
          /\ worker = "none" /\ main = "loop"
      BY DEF Init, LinkInit, RemoteInit, RunnerInit
    <2> QED
      BY <2>1 DEF EndBook, EndUnborn, EndConnected, EndSpawned, EndExited, EndCounted, Over
  <1>2. RInv /\ (Undisturbed => EndBook) /\ [Next]_vars => (Undisturbed => EndBook)'
    <2> SUFFICES ASSUME RInv, Undisturbed => EndBook, [Next]_vars, Undisturbed'
                 PROVE  EndBook'
      OBVIOUS
    <2>1. faults' = faults
      BY DEF Next, Program, Runner, System, Run, vars
    <2>2. Undisturbed /\ EndBook
      BY <2>1 DEF Undisturbed
    <2>3. CASE Program(RemoteNext)
      BY <2>2, <2>3, ProgramEnds DEF Program
    <2>4. CASE Runner(RunnerNext)
      BY <2>2, <2>4, RunnerEnds DEF Runner
    <2>5. CASE System(Kill) \/ System(DiesLate)
      <3>1. /\ process \in {"starting", "connected"} /\ Leave(1)
            /\ UNCHANGED <<main, worker, busy, dones>>
        BY <2>5 DEF System, Kill, DiesLate, remoteVars, runnerVars, historyVars
      <3> QED
        BY <2>2, <3>1, LeaveEnds
    <2>6. CASE UNCHANGED vars
      <3>1. UNCHANGED <<process, calls, inbox, main, worker, busy, dones>>
        BY <2>6 DEF vars, linkVars, remoteVars, runnerVars, historyVars
      <3> QED
        BY <2>2, <3>1
        DEF EndBook, EndUnborn, EndConnected, EndSpawned, EndExited, EndCounted, Over,
            EndIsOnePlace, NoEnd, Unserved
    <2> QED
      BY <2>3, <2>4, <2>5, <2>6 DEF Next
  <1> QED
    BY <1>1, <1>2, AlwaysRInv, PTL DEF Spec

\* Without timers or aborts, with answers in time, and unless a start handler
\* refuses that came after the one that spawned the worker, a test is done at
\* most once, wherever the program crashes or hangs and even if it survives
\* kill_process(): the refusal of a call, the answer to the last stop and the
\* loss of the program never tear it down twice.
THEOREM DoneOnceTheorem == Spec => []DoneOnce
  <1>1. (Undisturbed => EndBook) => DoneOnce
    BY DEF Undisturbed, EndBook, EndCounted, DoneOnce
  <1> QED
    BY <1>1, AlwaysEndsOnce, PTL
=============================================================================
