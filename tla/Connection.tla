----------------------------- MODULE Connection -----------------------------
(***************************************************************************)
(* The statement and the fetched row of an S2Connection                    *)
(* (s2_connection.cpp) as a record, and its operations as operators on it. *)
(* Every call of the MySQL client library may fail, so an operator is the  *)
(* set of its possible outcomes: the connection it leaves, whether it      *)
(* threw an S2ClientError, and the error code it threw.                    *)
(*                                                                         *)
(* A result set is a sequence of rows; a row is the record of its number   *)
(* and of the bytes rowSize() computes for it.  The result of a statement  *)
(* that returns no result set is NoResultSet.                              *)
(***************************************************************************)
EXTENDS Integers, Sequences

NoResultSet == <<[id |-> 0, size |-> 0]>>

\* What AdvanceText leaves when mysql_fetch_row fails: an array of null values.
BlankRow == [id |-> 0, size |-> 0]

\* The connection Connect returns: a statement handle, nothing prepared.
newConnection ==
    [m_stmt |-> "init", m_res |-> "null", m_use_binary_protocol |-> TRUE,
     m_last_fetched_row |-> <<>>, result |-> <<>>, cursor |-> 0]

threw(c, code) == [conn |-> c, threw |-> TRUE, code |-> code]

returned(c) == [conn |-> c, threw |-> FALSE, code |-> 0]

ServerError == 2000  \* any mysql_errno

-----------------------------------------------------------------------------
(* The row kept in memory.                                                 *)

FreeLastFetched(c) == [c EXCEPT !.m_last_fetched_row = <<>>]

\* Mutant: the statement is closed, the row stays.
cleanupKeepsRow(c) == [c EXCEPT !.m_stmt = "null"]

CleanupStatement(c) == [FreeLastFetched(c) EXCEPT !.m_stmt = "null"]

HasNextRow(c) == c.m_last_fetched_row # <<>>

fetchNext(c) ==
    [c EXCEPT !.m_last_fetched_row = <<c.result[c.cursor + 1]>>,
              !.cursor = @ + 1]

\* MYSQL_NO_DATA closes the statement; every failure frees the row.
AdvanceBinary(c) ==
    {threw(FreeLastFetched(c), ServerError)}
        \cup (IF c.cursor = Len(c.result)
              THEN {returned(CleanupStatement(c))}
              ELSE {returned(fetchNext(c))})

\* A failed mysql_fetch_row leaves the array allocated for the row in place.
AdvanceText(c) ==
    {threw(FreeLastFetched(c), ServerError),
     threw([c EXCEPT !.m_last_fetched_row = <<BlankRow>>], ServerError)}
        \cup (IF c.cursor = Len(c.result)
              THEN {returned(FreeLastFetched(c))}
              ELSE {returned(fetchNext(c))})

Advance(c) ==
    IF c.m_use_binary_protocol THEN AdvanceBinary(c) ELSE AdvanceText(c)

-----------------------------------------------------------------------------
(* Statements.                                                             *)

\* The result set of the statement that just ran is at its beginning.
opened(c, result) == [c EXCEPT !.result = result, !.cursor = 0]

Execute(c, result) ==
    LET text == [c EXCEPT !.m_use_binary_protocol = FALSE]
        used == [opened(text, result) EXCEPT !.m_res = "open"]
    IN {threw(text, ServerError)}
           \cup (IF result = NoResultSet
                 THEN {threw([text EXCEPT !.m_res = "null"], 0)}
                 ELSE Advance(used))

\* The three failures leave the handle in the state it had reached.
Prepare(c, result, prefetch) ==
    LET clean(stmt) == [CleanupStatement(c) EXCEPT !.m_stmt = stmt,
                                                   !.m_use_binary_protocol = TRUE]
        executed == opened(clean("executed"), result)
    IN {threw(clean(stmt), ServerError) : stmt \in {"null", "init", "prepared"}}
           \cup (IF result # NoResultSet /\ prefetch
                 THEN Advance(executed)
                 ELSE {returned(executed)})

\* The metadata of a statement without a result set is null and the
\* statement reports no error: what is thrown has the code 0.
GetRowSchema(c) ==
    IF ~c.m_use_binary_protocol THEN {returned(c)}
    ELSE IF c.result = NoResultSet THEN {threw(c, 0)}
    ELSE {returned(c), threw(c, ServerError)}

=============================================================================
