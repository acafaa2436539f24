---------------------------- MODULE MCDBConvert -----------------------------
EXTENDS DBConvert

MonitorClasses == << [type |-> "gst-log", parent |-> "monitor"],
                     [type |-> "valgrind", parent |-> "monitor"] >>

\* Two classes with a name of each kind, a test of each class and a scenario.
Tests == [i \in 1..3 |-> [type |-> IF i = 2 THEN 2 ELSE 1, parent |-> 0,
                          ismonitor |-> FALSE, isscenario |-> FALSE]]
ClassNames ==
    [k \in Dictionaries |-> << [container |-> ById(2), name |-> k],
                        [container |-> ById(1), name |-> k] >>]

\* The monitors' classes declare a name of the same kind each, in the other
\* order of the two.
MonitorNames ==
    [k \in Dictionaries |-> << [container |-> 2, name |-> "of valgrind"],
                        [container |-> 1, name |-> "of gst-log"] >>]
NameOf(class) == 3 - class

\* Up to two monitors, on any tests, each with or without an argument and an
\* extra information; with and without a scenario and blobs in the environment.
MCOldDatabases ==
    {[Empty EXCEPT
        !.testclassinfo = << [type |-> "play", parent |-> "test"],
                             [type |-> "seek", parent |-> "play"] >>,
        !.test = Tests,
        !.names = ClassNames,
        !.entries = [k \in Dictionaries |-> << [container |-> 1, name |-> 2] >>],
        !.env = IF b THEN {[run |-> r, name |-> n, blob |-> TRUE, text |-> FALSE] :
                             r \in {1, 2}, n \in {"uname", "env-variables"}}
                     ELSE {[run |-> 1, name |-> "uname", blob |-> FALSE, text |-> TRUE]},
        !.monitorclassinfo = MonitorClasses,
        !.monitor = ms,
        !.mnames = MonitorNames,
        !.mentries = [k \in Dictionaries |->
            [i \in DOMAIN SetToSeq(with[k]) |->
                [container |-> SetToSeq(with[k])[i],
                 name |-> NameOf(ms[SetToSeq(with[k])[i]].type)]]],
        !.subtests = IF b THEN << [testid |-> 1, scenarioid |-> 3],
                                  [testid |-> 2, scenarioid |-> 3] >>
                          ELSE <<>>] :
        b \in BOOLEAN,
        <<ms, with>> \in
            UNION {{n} \X [Dictionaries -> SUBSET DOMAIN n] :
                n \in SeqOf([testid : {1, 2}, type : {1, 2}], 2)}}
=============================================================================
