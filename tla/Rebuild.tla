------------------------------- MODULE Rebuild -------------------------------
(***************************************************************************)
(* What the analytix operations do to a dataset: a database that runs the  *)
(* statements of one call after another, where any statement may fail and  *)
(* the process may stop between two of them.  Each statement is committed  *)
(* on its own: an operation opens no transaction.  The operation lock      *)
(* (RecordCall) keeps the calls on one dataset apart.                      *)
(*                                                                         *)
(* A table is the rows and the columns it has, relative to the source as   *)
(* the call found it.  A call that is repeated names its columns as the    *)
(* last one did; the columns of any other call are new to the source.      *)
(***************************************************************************)
EXTENDS Statements, Naturals

CONSTANTS
  Programs,    \* backend -> name -> the lists of statements of that name
  Calls,       \* the names a user can call
  Edits,       \* those that mean to change the source's own rows or columns
  Spoils,      \* those known to change them without meaning to
  Once,        \* those known to fail without a fault, some when repeated only
  MaxRepeats,  \* bound: how often a call is repeated
  MaxFaults    \* bound: faults during a call and its repetitions

Backends == {"duckdb", "postgres", "clickhouse"}

ASSUME ProgramsNamed ==
  /\ DOMAIN Programs = Backends
  /\ \A n \in Calls : \E b \in Backends : n \in DOMAIN Programs[b]

\* A statement names tables of its call, or the program it runs.
Given == Tables \cup {"in"}
Pairing == {"rename", "renamein", "exchange", "insert", "make", "replace"}
Naming == Pairing \cup {"read", "add", "addif", "dropcol", "dropadded", "fill", "drop",
                       "dropif", "has", "lacks", "pass", "table"}
Named(b) ==
  {s \in Statement :
     /\ s.do = "run" => s.t \in DOMAIN Programs[b]
     /\ s.do \in Naming => s.t \in Given
     /\ s.do \in Pairing => s.from \in Given}

ASSUME ProgramsTyped ==
  \A b \in Backends : \A n \in DOMAIN Programs[b] :
    Programs[b][n] \subseteq Seq(Named(b))
ASSUME BoundsNat == MaxRepeats \in Nat /\ MaxFaults \in Nat

Contents == [rows : Amounts, cols : SUBSET Columns]
NoTable == [rows |-> "none", cols |-> {}]
Answers == {"none", "value", "table", "mutates", "refused", "failed", "crashed"}

VARIABLES
  backend,
  db,        \* table -> its contents
  marked,    \* the registry has the marker of the columns last published
  call,      \* the running or last call
  before,    \* the source as the call found it
  todo,      \* the statements it has left
  cur,       \* the table its operation is given
  chain,     \* a chain of functions: none, none succeeded yet, or some did
  trouble,   \* what went wrong in it
  answer,    \* how it was answered, and with which table
  repeats, faults

vars == <<backend, db, marked, call, before, todo, cur, chain, trouble, answer,
          repeats, faults>>

Idle == todo = << >>
Exists(t) == db[t] # NoTable

TypeOK ==
  /\ backend \in Backends
  /\ db \in [Tables -> Contents]
  /\ marked \in BOOLEAN
  /\ call \in Calls \cup {"none"}
  /\ before \in Contents
  /\ todo \in Seq(Statement)
  /\ cur \in Tables
  /\ chain \in {"none", "tried", "passed"}
  /\ trouble \subseteq {"refused", "fault", "broken", "skipped", "disowned"}
  /\ answer \in [how : Answers, t : Tables]
  /\ repeats \in 0..MaxRepeats /\ faults \in 0..MaxFaults

Source == [rows |-> "all", cols |-> {"own"}]

Init ==
  /\ backend \in Backends
  /\ db = [t \in Tables |-> IF t = "src" THEN Source ELSE NoTable]
  /\ marked = FALSE
  /\ call = "none" /\ before = Source /\ todo = << >> /\ cur = "src"
  /\ chain = "none" /\ trouble = {} /\ answer = [how |-> "none", t |-> "src"]
  /\ repeats = 0 /\ faults = 0

-----------------------------------------------------------------------------
(* Calls. *)

\* The dataset is left to other calls: whatever columns the source has are its
\* own for them, tables named afresh are out of their reach, one with a fixed name
\* is no copy of the source any more.  The temporary tables of a connection are met
\* again by the operation that made them only (Repeat).
Leave ==
  /\ Idle /\ call # "none"
  /\ db' = [t \in Tables |->
              IF t \in Fresh \cup Session \/ ~Exists(t) THEN NoTable
              ELSE IF t = "src" THEN Source
              ELSE IF Exists("src") THEN [rows |-> "other", cols |-> {"own"}] ELSE db[t]]
  /\ before' = db'["src"]
  /\ marked' = FALSE /\ call' = "none" /\ cur' = "src" /\ trouble' = {}
  /\ answer' = [how |-> "none", t |-> "src"] /\ repeats' = 0 /\ faults' = 0
  /\ chain' = "none" /\ UNCHANGED <<backend, todo>>

Begin(n) ==
  /\ call = "none" /\ n \in DOMAIN Programs[backend]
  /\ call' = n
  /\ todo' \in Programs[backend][n]
  /\ UNCHANGED <<backend, db, marked, before, cur, chain, trouble, answer, repeats, faults>>

\* The same call once more: the columns it made are there.
Repeat ==
  /\ Idle /\ call \in DOMAIN Programs[backend] /\ repeats < MaxRepeats
  /\ repeats' = repeats + 1
  /\ todo' \in Programs[backend][call]
  /\ db' = [t \in Tables |->
              IF t \in Fresh \/ ~Exists(t) THEN NoTable
              ELSE IF t = "src" THEN [db[t] EXCEPT !.rows = "all", !.cols = @ \cup {"own"}]
              ELSE IF Exists("src") THEN [db[t] EXCEPT !.rows = "other"] ELSE db[t]]
  /\ before' = db'["src"]
  /\ cur' = "src" /\ chain' = "none" /\ trouble' = {}
  /\ answer' = [how |-> "none", t |-> "src"]
  /\ UNCHANGED <<backend, marked, call, faults>>

\* Clearing the dataset's cache deletes the markers with the other rows.
ClearMarkers ==
  /\ Idle /\ marked /\ faults < MaxFaults
  /\ marked' = FALSE /\ faults' = faults + 1
  /\ UNCHANGED <<backend, db, call, before, todo, cur, chain, trouble, answer, repeats>>

-----------------------------------------------------------------------------
(* One statement. *)

S == Head(todo)
Doing(kind) == ~Idle /\ S.do = kind
At(t) == IF t = "in" THEN cur ELSE t
T == At(S.t)
F == At(S.from)

\* DuckDB renames the second of two columns of one name.
Selected == [rows |-> IF S.rows = "all" THEN db[F].rows ELSE S.rows,
             cols |-> (db[F].cols \ S.less) \cup S.cols]
Distinct == backend = "duckdb" \/ (db[F].cols \ S.less) \cap S.cols = {}

\* The database can run it.
Able ==
  CASE S.do \in {"read", "addif", "dropcol", "dropadded", "drop"} -> Exists(T)
    [] S.do = "add" -> Exists(T) /\ S.cols \cap db[T].cols = {}
    [] S.do = "fill" -> Exists(T) /\ S.cols \subseteq db[T].cols
    [] S.do = "rename" -> Exists(T) /\ ~Exists(F)
    [] S.do = "renamein" -> Exists(T) /\ Exists("src") /\ ~Exists(F)
    [] S.do \in {"exchange", "insert"} -> Exists(T) /\ Exists(F)
    [] S.do = "make" -> Exists(F) /\ ~Exists(T) /\ Distinct
    [] S.do = "replace" -> Exists(F) /\ Distinct
    [] OTHER -> TRUE

Sent == {"read", "add", "addif", "dropcol", "dropadded", "fill", "drop", "dropif",
         "rename", "renamein", "exchange", "insert", "make", "replace", "owned", "marker"}

Effect(d) ==
  /\ Able
  /\ db' = d
  /\ todo' = Tail(todo)
  /\ UNCHANGED <<backend, marked, call, before, cur, chain, trouble, answer, repeats, faults>>

ReadTable == Doing("read") /\ Effect(db)

AddColumns ==
  /\ Doing("add") \/ Doing("addif")
  /\ Effect([db EXCEPT ![T].cols = @ \cup S.cols])

\* Mutant of DropColumnsOf: only one of the helper columns is dropped.
DropOneColumn ==
  \/ Doing("dropcol") /\ Effect([db EXCEPT ![T].cols = @ \ S.cols])
  \/ /\ Doing("dropadded")
     /\ Effect([db EXCEPT ![T].cols = @ \ ((S.cols \ RowId) \ before.cols)])

DropColumnsOf ==
  \/ Doing("dropcol") /\ Effect([db EXCEPT ![T].cols = @ \ S.cols])
  \/ /\ Doing("dropadded")
     /\ Effect([db EXCEPT ![T].cols = @ \ (S.cols \ before.cols)])

\* New values in the source's own columns make its rows other rows.
FillColumns ==
  /\ Doing("fill")
  /\ Effect(IF "own" \in S.cols THEN [db EXCEPT ![T].rows = "other"] ELSE db)

DropTable == (Doing("drop") \/ Doing("dropif")) /\ Effect([db EXCEPT ![T] = NoTable])

RenameTable ==
  Doing("rename") /\ Effect([db EXCEPT ![F] = db[T], ![T] = NoTable])

ExchangeTables ==
  Doing("exchange") /\ Effect([db EXCEPT ![F] = db[T], ![T] = db[F]])

RenameTableIn ==
  /\ Doing("renamein")
  /\ Effect([db EXCEPT !["src"] = db[T], ![F] = db["src"], ![T] = NoTable])

InsertRows == Doing("insert") /\ Effect([db EXCEPT ![T].rows = Selected.rows])

MakeTable ==
  (Doing("make") \/ Doing("replace")) /\ Effect([db EXCEPT ![T] = Selected])

-----------------------------------------------------------------------------
(* Failures. *)

\* A function that fails is left out and the chain goes on with the next one;
\* other calls end.
Unwind ==
  IF chain = "none"
    THEN todo' = << >>
    ELSE \E i \in DOMAIN todo :
           /\ todo[i].do \in {"func", "collect"}
           /\ \A j \in 1..(i - 1) : todo[j].do \notin {"func", "collect"}
           /\ todo' = SubSeq(todo, i, Len(todo))

\* Mutant of FailStatement: the answer carries the reason instead of the error status.
FailWithReason(why) ==
  /\ ~Idle
  /\ trouble' = trouble \cup {why}
  /\ \/ S.soft /\ todo' = Tail(todo) /\ UNCHANGED <<db, answer>>
     \/ ~S.soft /\ Unwind /\ answer' = [answer EXCEPT !.how = why] /\ UNCHANGED db
  /\ UNCHANGED <<backend, marked, call, before, cur, chain, repeats>>

\* Mutant of FailStatement: a failed rename cleans up the temporary table.
FailTidily(why) ==
  /\ ~Idle
  /\ trouble' = trouble \cup {why}
  /\ \/ S.soft /\ todo' = Tail(todo) /\ UNCHANGED <<db, answer>>
     \/ /\ ~S.soft /\ Unwind
        /\ db' = IF S.do # "rename" THEN db ELSE [db EXCEPT ![T] = NoTable]
        /\ answer' = IF chain = "none" THEN [answer EXCEPT !.how = "failed"] ELSE answer
  /\ UNCHANGED <<backend, marked, call, before, cur, chain, repeats>>

FailStatement(why) ==
  /\ ~Idle
  /\ trouble' = trouble \cup {why}
  /\ \/ S.soft /\ todo' = Tail(todo) /\ UNCHANGED <<db, answer>>
     \/ /\ ~S.soft /\ Unwind
        /\ db' = IF S.undo = "" THEN db ELSE [db EXCEPT ![At(S.undo)] = NoTable]
        /\ answer' = IF chain = "none" THEN [answer EXCEPT !.how = "failed"] ELSE answer
  /\ UNCHANGED <<backend, marked, call, before, cur, chain, repeats>>

\* The database refuses the statement: it cannot run on these tables.  In a
\* chain the columns of an earlier function may be in the way of a later one.
Break ==
  /\ ~Idle /\ ~Able
  /\ FailStatement(IF chain = "passed" THEN "skipped" ELSE "broken")
  /\ UNCHANGED faults

\* The connection, the server or a limit fails it.
FailSent ==
  /\ ~Idle /\ S.do \in Sent /\ Able /\ faults < MaxFaults
  /\ FailStatement("fault") /\ faults' = faults + 1

\* An error answer: the operation found its arguments wrong.
RefuseCall ==
  /\ Doing("check") \/ Doing("refuse")
  /\ trouble' = trouble \cup {"refused"}
  /\ Unwind
  /\ answer' = IF chain = "none" THEN [answer EXCEPT !.how = "refused"] ELSE answer
  /\ UNCHANGED <<backend, db, marked, call, before, cur, chain, repeats, faults>>

Crash ==
  /\ ~Idle /\ faults < MaxFaults
  /\ faults' = faults + 1
  /\ db' = [t \in Tables |-> IF t \in Session THEN NoTable ELSE db[t]]
  /\ todo' = << >> /\ answer' = [answer EXCEPT !.how = "crashed"]
  /\ trouble' = trouble \cup {"fault"}
  /\ UNCHANGED <<backend, marked, call, before, cur, chain, repeats>>

-----------------------------------------------------------------------------
(* Orchestration and answers. *)

PassCheck == Doing("check") /\ Effect(db)

TakeBranch ==
  /\ \/ Doing("has") /\ S.cols \subseteq db[T].cols
     \/ Doing("lacks") /\ S.cols \cap db[T].cols = {}
  /\ Effect(db)

\* A read whose failure the code catches and goes on from.
ReadFails ==
  /\ Doing("unread") /\ faults < MaxFaults
  /\ trouble' = trouble \cup {"fault"} /\ faults' = faults + 1 /\ todo' = Tail(todo)
  /\ UNCHANGED <<backend, db, marked, call, before, cur, chain, answer, repeats>>

RunProgram ==
  /\ Doing("run")
  /\ \E p \in Programs[backend][S.t] : todo' = p \o Tail(todo)
  /\ UNCHANGED <<backend, db, marked, call, before, cur, chain, trouble, answer, repeats, faults>>

\* A function is given the table of the last one that succeeded; the tables of
\* the one before it are nobody's.
Tidied(d) == [t \in Tables |-> IF t \in Fresh \ {"c"} THEN NoTable ELSE d[t]]

StartFunction ==
  /\ Doing("func")
  /\ db' = Tidied(db) /\ todo' = Tail(todo)
  /\ chain' = IF chain = "none" THEN "tried" ELSE chain
  /\ UNCHANGED <<backend, marked, call, before, cur, trouble, answer, repeats, faults>>

PassOn ==
  /\ Doing("pass")
  /\ db' = Tidied([db EXCEPT !["c"] = db[T]]) /\ todo' = Tail(todo)
  /\ cur' = "c" /\ chain' = IF chain = "none" THEN "none" ELSE "passed"
  /\ UNCHANGED <<backend, marked, call, before, trouble, answer, repeats, faults>>

\* No function succeeded: an error answer.
CollectChain ==
  /\ Doing("collect")
  /\ chain' = "none"
  /\ IF chain = "passed"
       THEN todo' = Tail(todo) /\ UNCHANGED answer
       ELSE todo' = << >> /\ answer' = [answer EXCEPT !.how = "refused"]
  /\ UNCHANGED <<backend, db, marked, call, before, cur, trouble, repeats, faults>>

\* A column that is to be published is on the source already: the registry has to
\* say that it is this call's own, from an earlier run.
AssertOwned ==
  /\ Doing("owned")
  /\ IF "new" \in db["src"].cols /\ ~marked
       THEN /\ todo' = << >> /\ answer' = [answer EXCEPT !.how = "refused"]
            /\ trouble' = trouble \cup {"disowned"}
       ELSE todo' = Tail(todo) /\ UNCHANGED <<answer, trouble>>
  /\ UNCHANGED <<backend, db, marked, call, before, cur, chain, repeats, faults>>

\* Mutant of RecordMarker: the published columns are not marked as the call's own.
RecordNothing ==
  /\ Doing("marker")
  /\ todo' = Tail(todo)
  /\ UNCHANGED <<backend, db, marked, call, before, cur, chain, trouble, answer, repeats, faults>>

RecordMarker ==
  /\ Doing("marker")
  /\ marked' = TRUE /\ todo' = Tail(todo)
  /\ UNCHANGED <<backend, db, call, before, cur, chain, trouble, answer, repeats, faults>>

\* Mutant of Answer: the clone's name is answered, whatever the result was made as.
AnswerClone ==
  /\ \/ Doing("value") /\ answer' = [answer EXCEPT !.how = "value"]
     \/ Doing("table") /\ answer' = [how |-> "table", t |-> IF T = "src" THEN "src" ELSE "w"]
     \/ Doing("mutates") /\ answer' = [how |-> "mutates", t |-> "src"]
  /\ todo' = Tail(todo)
  /\ UNCHANGED <<backend, db, marked, call, before, cur, chain, trouble, repeats, faults>>

Answer ==
  /\ \/ Doing("value") /\ answer' = [answer EXCEPT !.how = "value"]
     \/ Doing("table") /\ answer' = [how |-> "table", t |-> T]
     \/ Doing("mutates") /\ answer' = [how |-> "mutates", t |-> "src"]
  /\ todo' = Tail(todo)
  /\ UNCHANGED <<backend, db, marked, call, before, cur, chain, trouble, repeats, faults>>

-----------------------------------------------------------------------------
Step ==
  \/ ReadTable \/ AddColumns \/ DropColumnsOf \/ FillColumns \/ DropTable
  \/ RenameTable \/ RenameTableIn \/ ExchangeTables \/ InsertRows \/ MakeTable
  \/ PassCheck \/ TakeBranch \/ ReadFails \/ RunProgram \/ StartFunction \/ PassOn
  \/ CollectChain \/ AssertOwned \/ RecordMarker \/ Answer
  \/ Break \/ FailSent \/ RefuseCall \/ Crash

Next ==
  \/ \E n \in Calls : Begin(n)
  \/ Repeat \/ Leave \/ ClearMarkers
  \/ Step

Spec == Init /\ [][Next]_vars

-----------------------------------------------------------------------------
(* Properties. *)

Helpers == Work \cup RowId

\* Wherever a call fails or the process stops, one table still has all rows and
\* the source's own columns: no statement destroys the last copy of the data.
\* (The swaps of _generated.py, and every rebuild of the cleaning operations.)
CopyKept ==
  call \notin Edits \cup Spoils /\ before # NoTable =>
    \E t \in Tables : db[t].rows = "all" /\ "own" \in db[t].cols

\* A call that nothing interrupted, whether it succeeded, was refused or failed,
\* leaves all rows, the source's columns and no helper columns in the source.
SourceWhole ==
  Idle /\ "fault" \notin trouble /\ before # NoTable /\ call \notin Edits \cup Spoils =>
    /\ db["src"].rows = "all"
    /\ before.cols \ Helpers \subseteq db["src"].cols
    /\ db["src"].cols \subseteq before.cols \cup {"own", "new"}

\* An answer names a table that is there; if that is the source, or the source
\* is said to have changed, the rows and columns of the call's source are in it.
AnswerHolds ==
  answer.how \in {"table", "mutates"} /\ Idle /\ call \notin Edits \cup Spoils =>
    /\ Exists(answer.t)
    /\ answer.t = "src" => db["src"].rows = "all" /\ before.cols \ Helpers \subseteq db["src"].cols

\* Without a fault a call does not fail on the database, whatever ran before it,
\* and what it published it may publish again.
Repeatable ==
  faults = 0 /\ before # NoTable /\ call \notin Once => trouble \cap {"broken", "disowned"} = {}

\* No operation that fills values takes the source's own columns away.
ColumnsKept == Idle /\ "fault" \notin trouble => "own" \in db["src"].cols
=============================================================================
