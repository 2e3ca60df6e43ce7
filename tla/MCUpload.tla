------------------------------ MODULE MCUpload ------------------------------
(***************************************************************************)
(* Two uploads of two rows over two ids.  On DuckDB every file in every    *)
(* format; on ClickHouse every format of a file the narrow type holds and  *)
(* of one whose second row only text does; on PostgreSQL, where the calls  *)
(* interleave inside their blocks, CSV files and frames of the latter and  *)
(* CSV files whose second row widens the column.                           *)
(***************************************************************************)
EXTENDS Upload

MCPlain == [r \in File |-> "plain"]
MCSpelled == [MCPlain EXCEPT ![Rows] = "spelled"]
MCForeign == [MCPlain EXCEPT ![Rows] = "foreign"]

MCCases ==
  ({"duckdb"} \X [File -> Values] \X Formats)
    \union ({"clickhouse"} \X {MCPlain, MCForeign} \X Formats)
    \union {<<"postgres", MCForeign, "csv">>, <<"postgres", MCForeign, "df">>,
            <<"postgres", MCSpelled, "csv">>}
=============================================================================
