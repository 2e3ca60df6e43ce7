------------------------------ MODULE MCRebuild ------------------------------
(***************************************************************************)
(* The programs of the modules, under the names of the calls that run      *)
(* them.                                                                   *)
(***************************************************************************)
EXTENDS RebuildOutline, TLC

W == INSTANCE WindowPrograms
C == INSTANCE ColumnPrograms
K == INSTANCE CleaningPrograms
B == INSTANCE TablePrograms

\* A chain here may mix rolling and expanding functions: more than a user can ask
\* for, and one set of chains for both.
MCPublish(b) ==
  [publish |-> W!PublishRowAligned(b),
   window |-> W!Rolling \cup W!Expanding,
   windowfunctions |-> (W!RollingFunctions(b) \cup W!ExpandingFunctions(b))
                       \ W!FillUnordered,
   ewm |-> W!EwmPublished(b),
   windowgroup |-> W!RollingGroupby \cup W!ExpandingGroupby,
   windowgroupfunctions |->
     (W!RollingFunctionsGroupby(b) \cup W!ExpandingFunctionsGroupby(b))
     \ W!SelectPeriodsCh,
   ewmgroup |-> W!EwmGroupbyPublished(b),
   map |-> C!Map,
   groupcumulative |-> C!GroupbyCumulativeOp,
   aggregate |-> C!GroupAggregate(b)]

MCEverywhere(b) ==
  [transform |-> C!Transforms(b),
   derive |-> UNION {C!GroupAggregateOnly, C!GroupEventRate, K!Deriving,
                     B!Reshaping(b), B!Combining, B!Selecting},
   fill |-> K!InPlaceEverywhere,
   arithmetic |-> B!Arithmetic,
   compare |-> B!CompareColumns,
   diff |-> B!DatetimeDiff(b)]

MCRowStore ==
  [unordered |-> W!Chain("unorderedfunctions"),
   unorderedfunctions |-> W!FillUnordered,
   date |-> C!Datetimes,
   cumulative |-> C!CumulativeOp,
   fillrows |-> K!OnlyRowStores,
   converttext |-> K!NumericConvertText,
   groupfill |-> K!FillnaGroupby,
   transpose |-> B!Transpose,
   insert |-> B!DataframeInsert,
   update |-> B!DataframeUpdate]

AllPrograms ==
  [duckdb |->
     MCPublish("duckdb") @@ MCEverywhere("duckdb") @@ MCRowStore
     @@ [datefill |-> K!DatetimeFillna],
   postgres |->
     MCPublish("postgres") @@ MCEverywhere("postgres") @@ MCRowStore
     @@ [datefill |-> K!DatetimeFillnaPg.statistic,
         dateshift |-> K!DatetimeFillnaPg.fill,
         groupdatefill |-> K!DatetimeFillnaGroupbyPg.statistic,
         groupdateshift |-> K!DatetimeFillnaGroupbyPg.fill],
   clickhouse |->
     MCPublish("clickhouse") @@ MCEverywhere("clickhouse")
     @@ [periods |-> W!Chain("periodfunctions"),
         periodfunctions |-> W!SelectPeriodsCh,
         datech |-> C!DatetimesCh \cup C!CumulativeOpCh,
         datefill |-> K!DatetimeFillna,
         mirrored |-> K!MirroredColumns,
         mirroredclone |-> K!MirroredClones,
         converttext |-> K!NumericConvertTextCh,
         groupfill |-> K!FillnaGroupbyCh,
         groupdateshift |-> K!DatetimeFillnaGroupbyCh.fill,
         insertch |-> B!DataframeInsertCh,
         update |-> B!DataframeUpdateCh,
         setorderby |-> B!SetOrderBy]]

\* TLC evaluates what a constant stands for at each use: a name, not the definition.
MCPrograms == AllPrograms
MCEdits == {"converttext", "update"}
MCSpoils == {"dateshift", "groupdateshift"}
MCOnce == {"unordered", "transpose", "insert", "mirroredclone",
           "groupdateshift", "periods", "ewmgroup"}
MCCalls ==
  {"window", "ewm", "windowgroup", "ewmgroup", "map",
   "groupcumulative", "aggregate", "transform", "derive", "fill", "arithmetic",
   "compare", "diff", "unordered", "date", "cumulative", "fillrows", "converttext",
   "groupfill", "transpose", "insert", "update", "datefill", "dateshift",
   "groupdatefill", "groupdateshift", "datech", "mirrored", "mirroredclone",
   "insertch", "setorderby", "periods"}
MCDateShift == {"dateshift"}

-----------------------------------------------------------------------------
(***************************************************************************)
(* The outlines of the programs: what flows from place to place, until     *)
(* nothing is added.  RebuildOutline assumes of them that they are sound.  *)
(***************************************************************************)

\* The function f, which TLC then evaluates once and not at each use.
Now(f) == << >> @@ f
Known(a) == [a EXCEPT !.held = Now(@)]
\* Notes that differ in the tables only, made into one.
Alike(a) == [a EXCEPT !.marked = {}, !.held = << >>]
Joined(known) ==
  {LET like == {e \in known : Alike(e) = a}
   IN  [a EXCEPT !.marked = UNION {e.marked : e \in like},
                 !.held = Now([t \in Tables |-> UNION {e.held[t] : e \in like}])] :
     a \in {Alike(e) : e \in known}}

\* What a list that o outlines leaves behind a statement, on to the next one or ...
OnTo(b, o, s, a) ==
  IF s.do = "run"
    THEN UNION {o[s.t][p].at[Len(p) + 1] : p \in Programs[b][s.t]}
    ELSE (IF s.do = "refuse" \/ (s.do = "collect" /\ a.chain # "passed") THEN {} ELSE {Known(After(a, s))})
         \cup (IF s.soft /\ ~Sure(b, a, s) THEN {a} ELSE {})
         \cup (IF s.soft /\ s.do \in Sent THEN {Hurt(a)} ELSE {})
\* ... out of the list, when it is refused or fails.
Out(b, s, a) ==
  (IF s.do \in {"check", "refuse"} THEN {a} ELSE {})
  \cup (IF ~s.soft /\ ~Sure(b, a, s) THEN {Undone(a, s)} ELSE {})
  \cup (IF ~s.soft /\ s.do \in Sent THEN {Undone(Hurt(a), s)} ELSE {})
\* Where the call ends.
Last(b, s, a) ==
  (IF a.chain = "none" THEN Out(b, s, a) ELSE {})
  \cup (IF s.do = "collect" /\ a.chain # "passed" THEN {Known(After(a, s))} ELSE {})
  \cup (IF s.do = "owned" THEN {a} ELSE {})

\* From what is known at the start of a list to what is known at each place of it.
RECURSIVE Along(_, _, _, _, _)
Along(b, o, p, start, left) ==
  IF p = << >> THEN <<start>>
  ELSE LET s == Head(p)
           here == IF s.do \in Resuming THEN Joined(start \cup left) ELSE start
           next == UNION {OnTo(b, o, s, a) : a \in here}
       IN  <<here>> \o Along(b, o, Tail(p), Joined({a \in next : ~Void(a)}), left)

Places(b, o) == UNION {UNION {{<<m, p, i>> : i \in DOMAIN p} : p \in Programs[b][m]} : m \in DOMAIN o}
\* Where the lists named m are entered: by the user, and behind a RUN of them.
Ends(b, n, o) ==
  UNION {o[n][p].at[Len(p) + 1] : p \in Programs[b][n]}
  \cup UNION {UNION {{Crashed(a)} \cup Last(b, x[2][x[3]], a) : a \in o[x[1]][x[2]].at[x[3]]} : x \in Places(b, o)}
Users(b, n, o) ==
  {Known(NewCall({})), Known(NewCall({"own"}))}
  \cup UNION {{Known(Again(a, c)) : c \in a.held["src"]}
               \cup {Known(Again(Cleared(a), c)) : c \in a.held["src"]} : a \in Ends(b, n, o)}
Entries(b, n, o, m) ==
  (IF m = n THEN Users(b, n, o) ELSE {})
  \cup UNION {o[x[1]][x[2]].at[x[3]] :
                x \in {y \in Places(b, o) : y[2][y[3]].do = "run" /\ y[2][y[3]].t = m}}

\* Where they are left.
Left(b, o, p, at) ==
  UNION {IF p[i].do = "run" THEN UNION {o[p[i].t][q].left : q \in Programs[b][p[i].t]}
         ELSE UNION {Out(b, p[i], a) : a \in {e \in at[i] : e.chain # "none"}} : i \in DOMAIN p}

\* One round over all lists; one that runs no other and is entered as before is done.
Plainly(p) == \A i \in DOMAIN p : p[i].do \notin Resuming \cup {"run"}
Round(b, n, o) ==
  Now([m \in DOMAIN o |->
         LET start == Joined(Entries(b, n, o, m))
         IN  Now([p \in Programs[b][m] |->
                IF Plainly(p) /\ o[m][p].at[1] = start THEN o[m][p]
                ELSE LET at == Along(b, o, p, start, o[m][p].left)
                     IN  [at |-> at, left |-> Joined(Left(b, o, p, at))]])])

RECURSIVE Settled(_, _, _)
Settled(b, n, o) == LET more == Round(b, n, o) IN IF more = o THEN o ELSE Settled(b, n, more)

\* A call's own lists and those they run; these run no others.
Unknown(b, n) ==
  [m \in {n} \cup UNION {{p[i].t : i \in {j \in DOMAIN p : p[j].do = "run"}} :
                             p \in Programs[b][n]} |->
     [p \in Programs[b][m] |-> [at |-> [i \in 1..(Len(p) + 1) |-> {}], left |-> {}]]]

AllOutlines ==
  Now([b \in Backends |->
         Now([n \in Calls \cap DOMAIN AllPrograms[b] |-> Settled(b, n, Unknown(b, n))])])
MCOutline(b, n) == AllOutlines[b][n]
=============================================================================
