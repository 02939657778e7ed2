-------------------------- MODULE MCClientSession --------------------------
(***************************************************************************)
(* Tables, values and requests for the run of ClientSession.               *)
(***************************************************************************)
EXTENDS ClientSession

column(name, length) == [name |-> name, length |-> length, utf8mb4 |-> FALSE]

MCTables ==
    { <<column(<<"text">>, 0), column(<<"var", "char">>, 2)>>,
      <<column(<<"int">>, 0), column(<<"text">>, 0)>>,
      <<column(<<"char">>, 1)>>,
      <<[column(<<"char">>, 1) EXCEPT !.utf8mb4 = TRUE]>>,
      <<column(<<"binary">>, 2)>>,
      <<column(<<"big", "int">>, 0)>>,
      <<column(<<"double">>, 0)>>,
      <<column(<<"date", "time">>, 0)>>,
      <<column(<<"date">>, 0), column(<<"time">>, 0)>>,
      <<column(<<"decimal">>, 0)>>,
      <<column(<<"time", "stamp">>, 0)>>,
      <<column(<<"var", "binary">>, 0), column(<<"long", "text">>, 0)>>,
      <<column(<<"medium", "text">>, 0), column(<<"long", "blob">>, 0)>>,
      <<column(<<"blob">>, 0), column(<<"tiny", "text">>, 0)>>,
      <<column(<<"medium", "blob">>, 0), column(<<"tiny", "blob">>, 0)>>,
      <<column(<<"small", "int">>, 0), column(<<"tiny", "int">>, 0)>>,
      <<column(<<"medium", "int">>, 0), column(<<"float">>, 0)>>,
      <<column(<<"bit">>, 1), column(<<"year">>, 0)>>,
      <<column(<<"json">>, 0)>>,
      <<column(<<"enum">>, 1), column(<<"set">>, 1)>> }

\* Every character that the text format gives a meaning to.
MCStrings ==
    {<<>>, <<Char("a")>>, <<Zero>>, <<Blank>>, <<Quote>>, <<Backslash>>, <<Tab>>, <<NewLine>>,
     <<Backslash, Char("N")>>, <<Quote, Tab>>, <<Zero, Zero>>, <<Zero, Blank>>,
     <<Blank, Blank>>, <<Char("a"), Blank>>}

MCintNull == -9
MCNumbers == {-9, -1, 0, 7}

\* Days of 4 seconds of 3 microseconds, and 3 days from the one origin to the other.
MCDateTimes == [sec : -14 .. 3, second_part : 0 .. 2]
MCDates == -5 .. 2
MCTimes ==
    {t \in [neg : BOOLEAN, hour : {0, 30}, minute : {0, 59}, second : {0, 1},
            second_part : {0, 2}] :
        t.neg => t.hour + t.minute + t.second + t.second_part > 0}

\* With one or two partitions the second has partitions or none.
MCWorkers == {[numWorkers |-> 0, workerId |-> 0], [numWorkers |-> 2, workerId |-> 1]}

Scan == <<"WARNING", "ResultTable", "ColumnStoreFilter", "ColumnStoreScan">>
Grouped == <<"ResultTable", "HashGroupBy", "ColumnStoreScan">>

\* The columns of the partitions vary where those of the order do not, and the other
\* way round; a type asked for by name takes no notice of the arguments fixed here.
MCRequests ==
    {q \in [sourceTable  : BOOLEAN,
            readType     : ReadTypes,
            materialized : BOOLEAN,
            partitionBy  : {{}, {"a"}, {"a", "b"}},
            orderBy      : {<<>>, <<"a">>, <<"a", "b">>, <<"key">>},
            shard_key    : {{}, {"a"}, {"a", "b"}},
            sort_key     : {<<>>, <<"a">>, <<"a", "b">>},
            plan         : {Scan, Grouped}] :
        /\ \/ q.partitionBy = {} /\ q.shard_key = {}
           \/ q.orderBy = <<"a">> /\ q.sort_key \in {<<>>, <<"a", "b">>}
        /\ q.sourceTable <=> (q.readType = "OriginalTable" \/ q.shard_key # {}
                              \/ q.sort_key # <<>> \/ q.plan = Grouped)
        /\ q.sourceTable => q.readType \in {"Unknown", "OriginalTable"}
        /\ q.readType = "OriginalTable" => q.plan = Scan /\ ~q.materialized /\ q.partitionBy = {}}

MCRows ==
    {[a |-> 0, b |-> 0, key |-> 1], [a |-> 0, b |-> 1, key |-> 2],
     [a |-> 1, b |-> 0, key |-> 3], [a |-> 1, b |-> 0, key |-> 0]}
=============================================================================
