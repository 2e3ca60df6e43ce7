---------------------------- MODULE ColumnPrograms ----------------------------
(***************************************************************************)
(* Operations that compute one or more columns from the others: transforms *)
(* (core/analytix/transform), parts of dates (datetime), running totals    *)
(* (cumulative, groupby_cumulative) and statistics of groups joined back   *)
(* onto the rows (groupby_stats).                                          *)
(*                                                                         *)
(* DuckDB and PostgreSQL add the column to the source itself and answer    *)
(* with the source as the "new table", undeclared as a change of it; on    *)
(* ClickHouse the answer is a new table and the source is left alone.      *)
(***************************************************************************)
EXTENDS Statements

AnswerTable(t) == Read(t) ++ Table(t)

AddAndFill == AddIf("src", New) ++ Fill("src", New)

InPlace(P) == P ++ AnswerTable("src")
Selecting(P) == P ++ Make("r", "src", New) ++ AnswerTable("r")

NewColumn(b) ==
  IF b = "clickhouse" THEN Selecting(Nothing) ELSE InPlace(AddAndFill)

-----------------------------------------------------------------------------
(* transform/base.py: each function has a branch per b. *)

\* The orchestrator publishes the result as the source.
Map ==
  Check ++ Read("src") ++ Check ++ Remake("r", "src", New) ++ Read("r") ++ Pass("r")
  ++ Run("publish")

NumericStandardize(b) == NewColumn(b)
NumericMinmaxScale(b) == NewColumn(b)

\* In place the column is there before the strategy and the quantiles are
\* looked at.
NumericBin(b) ==
  IF b = "clickhouse"
    THEN Selecting(Opt(Read("src") ++ Check)) \cup Refuse
    ELSE AddIf("src", New)
         ++ (Refuse
             \cup (Opt(Read("src") ++ Check) ++ Fill("src", New) ++ AnswerTable("src")))

NumericPolynomialFeatures(b) ==
  IF b = "clickhouse" THEN Selecting(Nothing) ELSE InPlace(Maybe(AddAndFill))

NumericInteractionTerms(b) == NewColumn(b)
NumericRobustScale(b) == NewColumn(b)
NumericMaxabsScale(b) == NewColumn(b)
NumericNormalize(b) == NewColumn(b)
NumericLogTransform(b) == NewColumn(b)
NumericQuantileTransform(b) == NewColumn(b)
NumericPowerTransform(b) == NewColumn(b)

\* One column for each of the categories that are read first.
CategoricalOneHotEncode(b) ==
  IF b = "clickhouse"
    THEN Selecting(Read("src"))
    ELSE InPlace(Read("src") ++ Maybe(AddAndFill))

CategoricalOrdinalEncode(b) == NewColumn(b)
CategoricalLabelEncode(b) == NewColumn(b)
CategoricalFrequencyEncode(b) == NewColumn(b)
CategoricalTargetEncode(b) == NewColumn(b)
CategoricalBinarize(b) == NewColumn(b)

DatetimeCyclicalEncode(b) ==
  Check ++ (IF b = "clickhouse" THEN Selecting(Nothing)
            ELSE InPlace(Some(AddIf("src", New) ++ AddIf("src", New)
                              ++ Fill("src", New) ++ Fill("src", New))))

Transforms(b) ==
  UNION {NumericStandardize(b), NumericMinmaxScale(b), NumericBin(b),
         NumericPolynomialFeatures(b), NumericInteractionTerms(b),
         NumericRobustScale(b), NumericMaxabsScale(b),
         NumericNormalize(b), NumericLogTransform(b),
         NumericQuantileTransform(b), NumericPowerTransform(b),
         CategoricalOneHotEncode(b), CategoricalOrdinalEncode(b),
         CategoricalLabelEncode(b), CategoricalFrequencyEncode(b),
         CategoricalTargetEncode(b), CategoricalBinarize(b),
         DatetimeCyclicalEncode(b)}

-----------------------------------------------------------------------------
(***************************************************************************)
(* datetime/base.py: DuckDB and PostgreSQL.  The columns are looked up and *)
(* the new one is added when it is not among them.                         *)
(***************************************************************************)
AddNewColumnIfNotExists == Read("src") ++ AddIf("src", New)
StampInPlace == InPlace(AddNewColumnIfNotExists ++ Fill("src", New))
CheckedInPlace == Check ++ StampInPlace

\* A copy of the rows that satisfy the condition.
PrepareFilteredTable == Keeping("some", {}, Make("w", "src", {})) ++ AnswerTable("w")

Extract == CheckedInPlace
Ceil == CheckedInPlace
Round == CheckedInPlace
FloorDate == CheckedInPlace
TzLocalize == StampInPlace
TzConvert == StampInPlace
IsMonthStart == StampInPlace
IsMonthEnd == StampInPlace
IsYearStart == StampInPlace
IsYearEnd == StampInPlace
IsQuarterStart == StampInPlace
IsQuarterEnd == StampInPlace
IsWeekend == StampInPlace
IsWeekday == StampInPlace
IsBusinessDay == StampInPlace
DaysInMonth == StampInPlace
WeekOfMonth == StampInPlace
DayName == StampInPlace
MonthName == StampInPlace
Diff == CheckedInPlace
Strptime == StampInPlace
ToDatetime == Check ++ (Strptime \cup (Opt(Check) ++ StampInPlace))
FromTimestamp == CheckedInPlace
Timestamp == StampInPlace
Strftime == StampInPlace
AddTimedelta == StampInPlace
SubTimedelta == StampInPlace
ReplaceParts == CheckedInPlace
Between == PrepareFilteredTable
BeforeDate == PrepareFilteredTable
AfterDate == PrepareFilteredTable
SelectYear == PrepareFilteredTable
SelectMonth == PrepareFilteredTable

\* That no unit was given is noticed after the column was added.
AddOffset == Check ++ AddNewColumnIfNotExists
             ++ Check ++ Fill("src", New) ++ AnswerTable("src")

Normalize == StampInPlace
Resample == Check ++ Read("src") ++ Value
Asfreq == Check ++ Read("src") ++ Check ++ Derive("r", "src") ++ AnswerTable("r")

Datetimes ==
  UNION {Extract, Ceil, Round, FloorDate, TzLocalize, TzConvert, IsMonthStart,
         IsMonthEnd, IsYearStart, IsYearEnd, IsQuarterStart, IsQuarterEnd, IsWeekend,
         IsWeekday, IsBusinessDay, DaysInMonth, WeekOfMonth, DayName, MonthName, Diff,
         ToDatetime, FromTimestamp, Timestamp, Strftime, Strptime, AddTimedelta,
         SubTimedelta, ReplaceParts, Between, BeforeDate, AfterDate, SelectYear,
         SelectMonth, AddOffset, Normalize, Resample, Asfreq}

(* datetime/clickhouse.py: the column is added to a clone. *)

CloneWith(P) ==
  Make("w", "src", {}) ++ AddCol("w", New) ++ Read("w") ++ P ++ Fill("w", New)
  ++ AnswerTable("w")

StampClone == CloneWith(Nothing)
CheckedClone == Check ++ StampClone

ExtractCh == CheckedClone
CeilCh == CheckedClone
RoundCh == CheckedClone
FloorCh == CheckedClone
TzLocalizeCh == StampClone
TzConvertCh == StampClone
IsMonthStartCh == StampClone
IsMonthEndCh == StampClone
IsYearStartCh == StampClone
IsYearEndCh == StampClone
IsQuarterStartCh == StampClone
IsQuarterEndCh == StampClone
IsWeekendCh == StampClone
IsWeekdayCh == StampClone
IsBusinessDayCh == StampClone
DaysInMonthCh == StampClone
WeekOfMonthCh == StampClone
AsfreqCh == Asfreq
DayNameCh == StampClone
MonthNameCh == StampClone
DiffCh == CheckedClone
ToDatetimeCh == CheckedClone
FromTimestampCh == CheckedClone
TimestampCh == StampClone
StrftimeCh == StampClone
StrptimeCh == StampClone
AddTimedeltaCh == StampClone
SubTimedeltaCh == StampClone
ReplaceCh == CheckedClone
FilteredCh == PrepareFilteredTable
\* The clone stays when no unit was given.
AddOffsetCh == Check ++ CloneWith(Check)
NormalizeCh == StampClone

DatetimesCh ==
  UNION {ExtractCh, CeilCh, RoundCh, FloorCh, TzLocalizeCh, TzConvertCh,
         IsMonthStartCh, IsMonthEndCh, IsYearStartCh, IsYearEndCh, IsQuarterStartCh,
         IsQuarterEndCh, IsWeekendCh, IsWeekdayCh, IsBusinessDayCh, DaysInMonthCh,
         WeekOfMonthCh, AsfreqCh, DayNameCh, MonthNameCh, DiffCh, ToDatetimeCh,
         FromTimestampCh, TimestampCh, StrftimeCh, StrptimeCh, AddTimedeltaCh,
         SubTimedeltaCh, ReplaceCh, FilteredCh, AddOffsetCh, NormalizeCh, Resample}

-----------------------------------------------------------------------------
(* cumulative/base.py and cumulative/clickhouse.py *)

CumulativeOp == InPlace(AddAndFill)
\* Without an order the row numbers it makes stay in the answer.
CumulativeOpCh ==
  (Make("r", "src", New) \cup Make("r", "src", New \cup RowId)) ++ AnswerTable("r")

(* groupby_cumulative/base.py and groupby_cumulative/clickhouse.py: a wide *)
(* table that the orchestrator publishes.                                  *)

GroupbyCumulativeOp ==
  Check ++ Remake("r", "src", New) ++ Read("r") ++ Pass("r") ++ Run("publish")
GroupbyCumulativeOpCh == GroupbyCumulativeOp

-----------------------------------------------------------------------------
(***************************************************************************)
(* groupby_stats: a table with one row for each group and, on request, its *)
(* columns joined onto the source.                                         *)
(***************************************************************************)
\* The columns of an earlier run of the same mapping are dropped first.  A failing
\* read of the source's columns is taken for a source that has none of them.
CheckMapCollision ==
  Unread \cup Lacks("src", New) \cup (Has("src", New) ++ Owned ++ DropCol("src", New))

ApplyMap == Replace("src", "src", New) ++ Marker

(* groupby_stats/postgres.py *)
ApplyMapPg ==
  DropIf("tmp") ++ Make("tmp", "src", New) ++ Drop("src") ++ Rename("tmp", "src") ++ Marker

(* groupby_stats/clickhouse.py *)
ApplyMapCh ==
  DropIf("tmp") ++ Make("tmp", "src", New) ++ Exchange("src", "tmp") ++ Drop("tmp") ++ Marker

GroupAggregate(b) ==
  LET Mapped == CASE b = "duckdb" -> ApplyMap
                  [] b = "postgres" -> ApplyMapPg
                  [] b = "clickhouse" -> ApplyMapCh
  IN  Check ++ CheckMapCollision ++ Derive("r", "src") ++ Mapped ++ AnswerTable("r")

\* The same without mapping.
GroupAggregateOnly == Check ++ Derive("r", "src") ++ AnswerTable("r")

GroupEventRate == Check ++ Derive("r", "src") ++ AnswerTable("r")
=============================================================================
