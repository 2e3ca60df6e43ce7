---------------------------- MODULE RebuildProofs ----------------------------
(***************************************************************************)
(* What the database that runs the programs keeps, for every set of        *)
(* programs whose statements name tables of their call (types) and that    *)
(* have sound outlines (the promises of Rebuild), and for any number of    *)
(* repetitions and faults.                                                 *)
(*                                                                         *)
(* The invariant says that what is left to do has a sound outline, and     *)
(* that one of the notes at its first place fits the state.  Cutting a     *)
(* chain down to its next function, putting a program in front and going   *)
(* on behind a statement keep it so; at its end, and wherever the process  *)
(* may stop, the note says what is promised.                               *)
(***************************************************************************)
EXTENDS RebuildOutline, SequenceTheorems, TLAPS

IInv == TypeOK /\ todo \in Seq(Named(backend))

\* A table's name stands for a table.
LEMMA AtTable ==
  ASSUME cur \in Tables, NEW t \in Given
  PROVE  At(t) \in Tables
BY DEF At, Given

LEMMA TailNamed ==
  ASSUME NEW Set, NEW s \in Seq(Set), s # << >>
  PROVE  Tail(s) \in Seq(Set) /\ Head(s) \in Set
BY HeadTailProperties

LEMMA SuffixNamed ==
  ASSUME NEW Set, NEW s \in Seq(Set), NEW i \in DOMAIN s
  PROVE  SubSeq(s, i, Len(s)) \in Seq(Set)
<1>1. i \in 1..Len(s)
  BY LenProperties
<1>2. \A k \in i..Len(s) : s[k] \in Set
  BY <1>1, ElementOfSeq, LenProperties
<1> QED
  BY <1>1, <1>2, SubSeqProperties, LenProperties

\* Replacing what a table holds leaves a database.
LEMMA PutTyped ==
  ASSUME NEW d \in [Tables -> Contents], NEW t, NEW c \in Contents
  PROVE  [d EXCEPT ![t] = c] \in [Tables -> Contents]
OBVIOUS

-----------------------------------------------------------------------------
LEMMA InitTyped == Init => IInv
<1> SUFFICES ASSUME Init PROVE IInv
  OBVIOUS
<1>1. todo \in Seq(Statement) /\ todo \in Seq(Named(backend))
  BY EmptySeq DEF Init
<1>2. Source \in Contents /\ NoTable \in Contents
  BY DEF Source, NoTable, Contents, Amounts, Columns
<1>3. db \in [Tables -> Contents] /\ before \in Contents
  BY <1>2 DEF Init
<1>4. cur \in Tables /\ answer \in [how : Answers, t : Tables]
  BY DEF Init, Tables, Answers
<1>5. repeats \in 0..MaxRepeats /\ faults \in 0..MaxFaults
  BY BoundsNat DEF Init
<1> QED
  BY <1>1, <1>3, <1>4, <1>5 DEF IInv, TypeOK, Init

\* The lists that are written are lists of statements.
LEMMA NamedTyped ==
  ASSUME NEW b, NEW s \in Seq(Named(b))
  PROVE  s \in Seq(Statement)
<1>1. Named(b) \subseteq Statement
  BY DEF Named
<1>2. Len(s) \in Nat /\ s \in [1..Len(s) -> Named(b)]
  BY LenProperties
<1> QED
  BY <1>1, <1>2

\* A statement that is carried out.
LEMMA EffectTyped ==
  ASSUME IInv, ~Idle, NEW d \in [Tables -> Contents], Effect(d)
  PROVE  IInv'
<1>1. todo' \in Seq(Named(backend)) /\ todo' \in Seq(Statement)
  BY TailNamed, NamedTyped DEF IInv, TypeOK, Effect, Idle
<1> QED
  BY <1>1 DEF IInv, TypeOK, Effect

\* The statement that is next names tables, where it has to.
LEMMA HeadTyped ==
  ASSUME IInv, ~Idle
  PROVE  /\ S \in Statement
         /\ S.do = "run" => S.t \in DOMAIN Programs[backend]
         /\ S.do \in Naming => T \in Tables
         /\ S.do \in Pairing => F \in Tables
<1>1. S \in Named(backend)
  BY TailNamed DEF IInv, Idle, S
<1>2. /\ S \in Statement
      /\ S.do = "run" => S.t \in DOMAIN Programs[backend]
      /\ S.do \in Naming => S.t \in Given
      /\ S.do \in Pairing => S.from \in Given
  BY <1>1 DEF Named
<1> QED
  BY <1>2, AtTable DEF IInv, TypeOK, T, F

LEMMA SelectedTyped ==
  ASSUME IInv, ~Idle, S.do \in Pairing
  PROVE  Selected \in Contents
<1>1. S \in Statement /\ db[F] \in Contents
  BY HeadTyped DEF IInv, TypeOK
<1>2. S.rows \in Amounts /\ S.cols \subseteq Columns /\ S.less \subseteq Columns
  BY <1>1 DEF Statement
<1>3. db[F].rows \in Amounts /\ db[F].cols \subseteq Columns
  BY <1>1 DEF Contents
<1>4. ((db[F].cols \ S.less) \cup S.cols) \in SUBSET Columns
  BY <1>2, <1>3
<1>5. (IF S.rows = "all" THEN db[F].rows ELSE S.rows) \in Amounts
  BY <1>2, <1>3
<1> QED
  BY <1>4, <1>5 DEF Selected, Contents

-----------------------------------------------------------------------------
(* One statement. *)

LEMMA ColumnsTyped ==
  ASSUME NEW c \in Contents, NEW x \in SUBSET Columns
  PROVE  /\ [c EXCEPT !.cols = x] \in Contents
         /\ \A r \in Amounts : [c EXCEPT !.rows = r] \in Contents
         /\ c.cols \subseteq Columns
BY DEF Contents

LEMMA PlainTyped == NoTable \in Contents /\ Source \in Contents
BY DEF NoTable, Source, Contents, Amounts, Columns

LEMMA StatementsTyped ==
  ASSUME IInv,
         \/ ReadTable \/ AddColumns \/ DropColumnsOf \/ FillColumns \/ DropTable
         \/ RenameTable \/ RenameTableIn \/ ExchangeTables \/ InsertRows \/ MakeTable
         \/ PassCheck \/ TakeBranch
  PROVE  IInv'
<1> USE HeadTyped, EffectTyped, PlainTyped
<1>0. db \in [Tables -> Contents] /\ before \in Contents
  BY DEF IInv, TypeOK
<1>a. ASSUME ~Idle, S.do \in Naming PROVE T \in Tables /\ db[T] \in Contents
  BY <1>0, <1>a
<1>b. ASSUME ~Idle, S.do \in Pairing PROVE F \in Tables /\ db[F] \in Contents
  BY <1>0, <1>b
<1>c. ~Idle => S.cols \subseteq Columns
  BY DEF Statement
<1>1. CASE ReadTable
  BY <1>0, <1>1 DEF ReadTable, Doing
<1>2. CASE AddColumns
  <2>1. ~Idle /\ S.do \in Naming /\ Effect([db EXCEPT ![T].cols = @ \cup S.cols])
    BY <1>2 DEF AddColumns, Doing, Naming
  <2>2. (db[T].cols \cup S.cols) \in SUBSET Columns
    BY <2>1, <1>a, <1>c, ColumnsTyped
  <2>3. [db EXCEPT ![T].cols = @ \cup S.cols] \in [Tables -> Contents]
    BY <2>1, <2>2, <1>a, <1>0, ColumnsTyped
  <2> QED BY <2>1, <2>3
<1>3. CASE DropColumnsOf
  <2>1. ASSUME NEW x, ~Idle, S.do \in Naming, Effect([db EXCEPT ![T].cols = @ \ x])
        PROVE  IInv'
    <3>1. (db[T].cols \ x) \in SUBSET Columns
      BY <2>1, <1>a, ColumnsTyped
    <3>2. [db EXCEPT ![T].cols = @ \ x] \in [Tables -> Contents]
      BY <2>1, <3>1, <1>a, <1>0, ColumnsTyped
    <3> QED BY <2>1, <3>2
  <2>2. CASE Doing("dropcol") /\ Effect([db EXCEPT ![T].cols = @ \ S.cols])
    BY <2>1, <2>2 DEF Doing, Naming
  <2>3. CASE Doing("dropadded") /\ Effect([db EXCEPT ![T].cols = @ \ (S.cols \ before.cols)])
    BY <2>1, <2>3 DEF Doing, Naming
  <2> QED BY <1>3, <2>2, <2>3 DEF DropColumnsOf
<1>4. CASE FillColumns
  <2>1. ~Idle /\ S.do \in Naming
    BY <1>4 DEF FillColumns, Doing, Naming
  <2>2. [db EXCEPT ![T].rows = "other"] \in [Tables -> Contents]
    <3>1. "other" \in Amounts BY DEF Amounts
    <3> QED BY <2>1, <3>1, <1>a, <1>0, ColumnsTyped
  <2> QED BY <1>4, <2>1, <2>2, <1>0 DEF FillColumns
<1>5. CASE DropTable
  <2>1. [db EXCEPT ![T] = NoTable] \in [Tables -> Contents]
    BY <1>0, PutTyped
  <2> QED BY <1>5, <2>1 DEF DropTable, Doing
<1>6. CASE RenameTable
  <2>1. ~Idle /\ S.do \in Naming /\ Effect([db EXCEPT ![F] = db[T], ![T] = NoTable])
    BY <1>6 DEF RenameTable, Doing, Naming, Pairing
  <2>2. [db EXCEPT ![F] = db[T], ![T] = NoTable] \in [Tables -> Contents]
    BY <2>1, <1>a, <1>0
  <2> QED BY <2>1, <2>2
<1>7. CASE RenameTableIn
  <2>1. /\ ~Idle /\ S.do \in Naming
        /\ Effect([db EXCEPT !["src"] = db[T], ![F] = db["src"], ![T] = NoTable])
    BY <1>7 DEF RenameTableIn, Doing, Naming, Pairing
  <2>2. "src" \in Tables
    BY DEF Tables
  <2>3. [db EXCEPT !["src"] = db[T], ![F] = db["src"], ![T] = NoTable] \in [Tables -> Contents]
    BY <2>1, <2>2, <1>a, <1>0
  <2> QED BY <2>1, <2>3
<1>8. CASE ExchangeTables
  <2>1. /\ ~Idle /\ S.do \in Naming \cap Pairing
        /\ Effect([db EXCEPT ![F] = db[T], ![T] = db[F]])
    BY <1>8 DEF ExchangeTables, Doing, Naming, Pairing
  <2>2. [db EXCEPT ![F] = db[T], ![T] = db[F]] \in [Tables -> Contents]
    BY <2>1, <1>a, <1>b, <1>0
  <2> QED BY <2>1, <2>2
<1>9. CASE InsertRows
  <2>1. /\ ~Idle /\ S.do \in Naming \cap Pairing
        /\ Effect([db EXCEPT ![T].rows = Selected.rows])
    BY <1>9 DEF InsertRows, Doing, Naming, Pairing
  <2>2. Selected.rows \in Amounts
    BY <2>1, SelectedTyped DEF Contents
  <2>3. [db EXCEPT ![T].rows = Selected.rows] \in [Tables -> Contents]
    BY <2>1, <2>2, <1>a, <1>0, ColumnsTyped
  <2> QED BY <2>1, <2>3
<1>10. CASE MakeTable
  <2>1. ~Idle /\ S.do \in Pairing /\ Effect([db EXCEPT ![T] = Selected])
    BY <1>10 DEF MakeTable, Doing, Pairing
  <2>2. [db EXCEPT ![T] = Selected] \in [Tables -> Contents]
    BY <2>1, <1>0, SelectedTyped, PutTyped
  <2> QED BY <2>1, <2>2
<1>11. CASE PassCheck
  BY <1>0, <1>11 DEF PassCheck, Doing
<1>12. CASE TakeBranch
  BY <1>0, <1>12 DEF TakeBranch, Doing
<1> QED
  BY <1>1, <1>2, <1>3, <1>4, <1>5, <1>6, <1>7, <1>8, <1>9, <1>10, <1>11, <1>12

-----------------------------------------------------------------------------
(* Failures. *)

\* What is left of a chain is a list of statements, too.
LEMMA UnwindTyped ==
  ASSUME IInv, Unwind
  PROVE  todo' \in Seq(Named(backend))
<1>1. CASE todo' = << >>
  BY <1>1, EmptySeq
<1>2. ASSUME NEW i \in DOMAIN todo, todo' = SubSeq(todo, i, Len(todo))
      PROVE  todo' \in Seq(Named(backend))
  BY <1>2, SuffixNamed DEF IInv
<1> QED
  BY <1>1, <1>2 DEF Unwind

LEMMA FailureTyped ==
  ASSUME IInv, NEW why \in {"fault", "broken", "skipped"}, FailStatement(why),
         faults' \in 0..MaxFaults
  PROVE  IInv'
<1>1. ~Idle /\ trouble' = trouble \cup {why}
  BY DEF FailStatement
<1>2. todo' \in Seq(Named(backend))
  BY <1>1, TailNamed, UnwindTyped DEF FailStatement, IInv, Idle
<1>3. db' \in [Tables -> Contents]
  BY PlainTyped, PutTyped DEF FailStatement, IInv, TypeOK
<1>4. answer' \in [how : Answers, t : Tables]
  <2>1. "failed" \in Answers
    BY DEF Answers
  <2> QED
    BY <2>1 DEF FailStatement, IInv, TypeOK
<1>5. todo' \in Seq(Statement)
  BY <1>2, NamedTyped
<1>6. UNCHANGED <<backend, marked, call, before, cur, chain, repeats>>
  BY DEF FailStatement
<1> QED
  BY <1>1, <1>2, <1>3, <1>4, <1>5, <1>6 DEF IInv, TypeOK

LEMMA FailuresTyped ==
  ASSUME IInv, Break \/ FailSent \/ RefuseCall \/ Crash \/ ReadFails
  PROVE  IInv'
<1>0. IInv /\ TypeOK
  BY DEF IInv
<1>1. CASE Break
  <2>1. faults' \in 0..MaxFaults
    BY <1>0, <1>1 DEF Break, TypeOK
  <2> QED BY <1>1, <2>1, FailureTyped DEF Break
<1>a. ASSUME faults < MaxFaults, faults' = faults + 1 PROVE faults' \in 0..MaxFaults
  BY <1>0, <1>a, BoundsNat DEF TypeOK
<1>2. CASE FailSent
  BY <1>2, <1>a, FailureTyped DEF FailSent
<1>3. CASE RefuseCall
  <2>1. todo' \in Seq(Named(backend)) /\ todo' \in Seq(Statement)
    BY <1>0, <1>3, UnwindTyped, NamedTyped DEF RefuseCall
  <2>2. answer' \in [how : Answers, t : Tables]
    BY <1>0, <1>3 DEF RefuseCall, TypeOK, Answers
  <2> QED BY <1>0, <1>3, <2>1, <2>2 DEF RefuseCall, IInv, TypeOK
<1>4. CASE Crash
  <2>1. faults' \in 0..MaxFaults
    BY <1>4, <1>a DEF Crash
  <2>2. db' \in [Tables -> Contents]
    BY <1>0, <1>4, PlainTyped DEF Crash, TypeOK
  <2>3. answer' \in [how : Answers, t : Tables]
    BY <1>0, <1>4 DEF Crash, TypeOK, Answers
  <2>4. todo' \in Seq(Named(backend)) /\ todo' \in Seq(Statement)
    BY <1>4, EmptySeq DEF Crash
  <2> QED BY <1>0, <1>4, <2>1, <2>2, <2>3, <2>4 DEF Crash, IInv, TypeOK
<1>5. CASE ReadFails
  <2>1. faults' \in 0..MaxFaults
    BY <1>5, <1>a DEF ReadFails
  <2>2. todo' \in Seq(Named(backend)) /\ todo' \in Seq(Statement)
    BY <1>0, <1>5, TailNamed, NamedTyped DEF ReadFails, Doing, Idle, IInv
  <2> QED BY <1>0, <1>5, <2>1, <2>2 DEF ReadFails, IInv, TypeOK
<1> QED
  BY <1>1, <1>2, <1>3, <1>4, <1>5

-----------------------------------------------------------------------------
(* Orchestration. *)

LEMMA TidiedTyped ==
  ASSUME NEW d \in [Tables -> Contents]
  PROVE  Tidied(d) \in [Tables -> Contents]
BY PlainTyped DEF Tidied

LEMMA OrchestrationTyped ==
  ASSUME IInv,
         \/ RunProgram \/ StartFunction \/ PassOn \/ CollectChain \/ AssertOwned
         \/ RecordMarker \/ Answer
  PROVE  IInv'
<1>0. IInv /\ TypeOK
  BY DEF IInv
<1>a. ASSUME ~Idle, todo' = Tail(todo)
      PROVE  todo' \in Seq(Named(backend)) /\ todo' \in Seq(Statement)
  BY <1>0, <1>a, TailNamed, NamedTyped DEF Idle, IInv
<1>1. CASE RunProgram
  <2>1. ~Idle /\ S.do = "run"
    BY <1>1 DEF RunProgram, Doing
  <2>2. PICK p \in Programs[backend][S.t] : todo' = p \o Tail(todo)
    BY <1>1 DEF RunProgram
  <2>3. p \in Seq(Named(backend))
    BY <1>0, <2>1, <2>2, HeadTyped, ProgramsTyped DEF TypeOK
  <2>4. Tail(todo) \in Seq(Named(backend))
    BY <1>0, <2>1, TailNamed DEF Idle, IInv
  <2>5. todo' \in Seq(Named(backend)) /\ todo' \in Seq(Statement)
    BY <2>2, <2>3, <2>4, ConcatProperties, NamedTyped
  <2> QED BY <1>0, <1>1, <2>5 DEF RunProgram, IInv, TypeOK
<1>2. CASE StartFunction
  <2>1. db' \in [Tables -> Contents]
    BY <1>0, <1>2, TidiedTyped DEF StartFunction, TypeOK
  <2>2. todo' \in Seq(Named(backend)) /\ todo' \in Seq(Statement)
    BY <1>2, <1>a DEF StartFunction, Doing
  <2> QED BY <1>0, <1>2, <2>1, <2>2 DEF StartFunction, IInv, TypeOK
<1>3. CASE PassOn
  <2>1. ~Idle /\ S.do \in Naming /\ "c" \in Tables
    BY <1>3 DEF PassOn, Doing, Naming, Tables, Fresh
  <2>2. db[T] \in Contents
    BY <1>0, <2>1, HeadTyped DEF TypeOK
  <2>3. [db EXCEPT !["c"] = db[T]] \in [Tables -> Contents]
    BY <1>0, <2>2, PutTyped DEF TypeOK
  <2>4. db' \in [Tables -> Contents]
    BY <1>3, <2>3, TidiedTyped DEF PassOn
  <2>5. todo' \in Seq(Named(backend)) /\ todo' \in Seq(Statement)
    BY <1>3, <2>1, <1>a DEF PassOn
  <2>6. chain' \in {"none", "tried", "passed"}
    BY <1>3 DEF PassOn
  <2> QED BY <1>0, <1>3, <2>1, <2>4, <2>5, <2>6 DEF PassOn, IInv, TypeOK
<1>4. CASE CollectChain
  <2>1. todo' \in Seq(Named(backend)) /\ todo' \in Seq(Statement)
    BY <1>4, <1>a, EmptySeq DEF CollectChain, Doing
  <2>2. answer' \in [how : Answers, t : Tables]
    BY <1>0, <1>4 DEF CollectChain, TypeOK, Answers
  <2> QED BY <1>0, <1>4, <2>1, <2>2 DEF CollectChain, IInv, TypeOK
<1>5. CASE AssertOwned
  <2>1. todo' \in Seq(Named(backend)) /\ todo' \in Seq(Statement)
    BY <1>5, <1>a, EmptySeq DEF AssertOwned, Doing
  <2>2. answer' \in [how : Answers, t : Tables]
    BY <1>0, <1>5 DEF AssertOwned, TypeOK, Answers
  <2> QED BY <1>0, <1>5, <2>1, <2>2 DEF AssertOwned, IInv, TypeOK
<1>6. CASE RecordMarker
  <2>1. todo' \in Seq(Named(backend)) /\ todo' \in Seq(Statement)
    BY <1>6, <1>a DEF RecordMarker, Doing
  <2> QED BY <1>0, <1>6, <2>1 DEF RecordMarker, IInv, TypeOK
<1>7. CASE Answer
  <2>1. todo' \in Seq(Named(backend)) /\ todo' \in Seq(Statement)
    BY <1>7, <1>a DEF Answer, Doing
  <2>2. answer' \in [how : Answers, t : Tables]
    <3>1. {"value", "table", "mutates"} \subseteq Answers /\ "src" \in Tables
      BY DEF Answers, Tables
    <3>2. Doing("table") => T \in Tables
      BY <1>0, HeadTyped DEF Doing, Naming
    <3> QED BY <1>0, <1>7, <3>1, <3>2 DEF Answer, TypeOK
  <2> QED BY <1>0, <1>7, <2>1, <2>2 DEF Answer, IInv, TypeOK
<1> QED
  BY <1>1, <1>2, <1>3, <1>4, <1>5, <1>6, <1>7

-----------------------------------------------------------------------------
(* Calls. *)

LEMMA CallsTyped ==
  ASSUME IInv, (\E n \in Calls : Begin(n)) \/ Repeat \/ Leave \/ ClearMarkers
  PROVE  IInv'
<1>0. IInv /\ TypeOK /\ db \in [Tables -> Contents] /\ "src" \in Tables
  BY DEF IInv, TypeOK, Tables
<1>1. ASSUME NEW n \in Calls, Begin(n) PROVE IInv'
  <2>1. todo' \in Seq(Named(backend)) /\ todo' \in Seq(Statement)
    BY <1>0, <1>1, ProgramsTyped, NamedTyped DEF Begin, TypeOK
  <2> QED BY <1>0, <1>1, <2>1 DEF Begin, IInv, TypeOK
<1>2. CASE Repeat
  <2>1. call \in DOMAIN Programs[backend]
    BY <1>0, <1>2 DEF Repeat
  <2>2. todo' \in Seq(Named(backend)) /\ todo' \in Seq(Statement)
    BY <1>0, <1>2, <2>1, ProgramsTyped, NamedTyped DEF Repeat, TypeOK
  <2>3. db' \in [Tables -> Contents]
    <3>1. ASSUME NEW c \in Contents
          PROVE  /\ [c EXCEPT !.rows = "all", !.cols = @ \cup {"own"}] \in Contents
                 /\ [c EXCEPT !.rows = "other"] \in Contents
      BY DEF Contents, Amounts, Columns
    <3> QED BY <1>0, <1>2, <3>1, PlainTyped DEF Repeat
  <2>4. before' \in Contents
    BY <1>0, <1>2, <2>3 DEF Repeat
  <2>5. repeats' \in 0..MaxRepeats
    <3>1. repeats \in 0..MaxRepeats /\ repeats < MaxRepeats /\ repeats' = repeats + 1
      BY <1>0, <1>2 DEF Repeat, TypeOK
    <3> QED BY <3>1, BoundsNat
  <2>6. answer' \in [how : Answers, t : Tables]
    BY <1>0, <1>2 DEF Repeat, Answers
  <2> QED BY <1>0, <1>2, <2>2, <2>3, <2>4, <2>5, <2>6 DEF Repeat, IInv, TypeOK
<1>3. CASE Leave
  <2>1. db' \in [Tables -> Contents]
    <3>1. [rows |-> "other", cols |-> {"own"}] \in Contents
      BY DEF Contents, Amounts, Columns
    <3> QED BY <1>0, <1>3, <3>1, PlainTyped DEF Leave
  <2>2. before' \in Contents
    BY <1>0, <1>3, <2>1 DEF Leave
  <2>3. repeats' \in 0..MaxRepeats /\ faults' \in 0..MaxFaults
    BY <1>3, BoundsNat DEF Leave
  <2>4. answer' \in [how : Answers, t : Tables]
    BY <1>0, <1>3 DEF Leave, Answers
  <2> QED BY <1>0, <1>3, <2>1, <2>2, <2>3, <2>4 DEF Leave, IInv, TypeOK
<1>4. CASE ClearMarkers
  <2>1. faults' \in 0..MaxFaults
    BY <1>0, <1>4, BoundsNat DEF ClearMarkers, TypeOK
  <2> QED BY <1>0, <1>4, <2>1 DEF ClearMarkers, IInv, TypeOK
<1> QED
  BY <1>1, <1>2, <1>3, <1>4

LEMMA NextTyped == IInv /\ [Next]_vars => IInv'
<1> SUFFICES ASSUME IInv, [Next]_vars PROVE IInv'
  OBVIOUS
<1>1. CASE UNCHANGED vars
  BY <1>1 DEF IInv, TypeOK, vars
<1>2. CASE Step
  BY <1>2, StatementsTyped, FailuresTyped, OrchestrationTyped DEF Step
<1>3. CASE (\E n \in Calls : Begin(n)) \/ Repeat \/ Leave \/ ClearMarkers
  BY <1>3, CallsTyped
<1> QED
  BY <1>1, <1>2, <1>3 DEF Next

\* Whatever programs a database runs, its state keeps its type: every name is
\* resolved to a table, every list that is left is made of statements, and no
\* fault is counted past the bound.
THEOREM RebuildTypes == Spec => []TypeOK
<1>1. IInv => TypeOK
  BY DEF IInv
<1> QED
  BY <1>1, InitTyped, NextTyped, PTL DEF Spec
-----------------------------------------------------------------------------
(* Outlines of lists. *)

\* The outline o of what is left to do, with which the call may end.
Complete(b, n, s, o) ==
  Sound(b, n, s, o) /\ \A a \in o.at[Len(s) + 1] : Ended(b, n, a)

\* The note a is true of a call and its tables.
Matches(a, was, cr, ch, luck, says, mark, d) ==
  /\ a.was = was /\ a.cur = cr /\ a.chain = ch /\ a.luck = luck /\ a.says = says
  /\ mark \in a.marked
  /\ \A t \in Tables : d[t] \in a.held[t]

\* What is true is noted, when it is among what is noted.
LEMMA MatchesAmong ==
  ASSUME NEW a, NEW was, NEW cr, NEW ch, NEW luck, NEW says, NEW mark, NEW d, NEW known,
         Matches(a, was, cr, ch, luck, says, mark, d), Among(a, known)
  PROVE  \E e \in known : Matches(e, was, cr, ch, luck, says, mark, d)
<1>1. ~Void(a)
  BY DEF Matches, Void
<1>2. PICK e \in known : Covers(e, a)
  BY <1>1 DEF Among
<1>3. Matches(e, was, cr, ch, luck, says, mark, d)
  BY <1>2 DEF Matches, Covers
<1> QED
  BY <1>3

\* Knowing less is true of whatever is true of more.
LEMMA AmongWithin ==
  ASSUME NEW few, NEW known, Within(few, known), NEW a, Among(a, few)
  PROVE  Among(a, known)
<1>1. SUFFICES ASSUME ~Void(a) PROVE Among(a, known)
  BY DEF Among
<1>2. PICK e \in few : Covers(e, a)
  BY <1>1 DEF Among
<1>3. ~Void(e)
  BY <1>1, <1>2 DEF Covers, Void
<1>4. PICK f \in known : Covers(f, e)
  BY <1>3 DEF Within, Among
<1>5. Covers(f, a)
  BY <1>2, <1>4 DEF Covers
<1> QED
  BY <1>5 DEF Among

LEMMA AmongAny ==
  ASSUME NEW known, NEW a \in known
  PROVE  Among(a, known)
BY DEF Among, Covers

LEMMA FollowsWithin ==
  ASSUME NEW b, NEW n, NEW s, NEW a, NEW next, NEW left, NEW later, NEW wider,
         Follows(b, n, s, a, next, left), Within(next, later), Within(left, wider)
  PROVE  Follows(b, n, s, a, later, wider)
<1>1. \A e : Among(e, next) => Among(e, later)
  BY AmongWithin
<1>2. \A e : Among(e, left) => Among(e, wider)
  BY AmongWithin
<1>3. \A e : Stops(b, n, e, left) => Stops(b, n, e, wider)
  BY <1>2 DEF Stops
<1>4. \A e : Fails(b, n, s, e, next, left) => Fails(b, n, s, e, later, wider)
  BY <1>1, <1>3 DEF Fails
<1>5. ASSUME NEW p, NEW o, Runs(p, o, a, next, left)
      PROVE  Runs(p, o, a, later, wider)
  BY <1>1, <1>2, <1>5 DEF Runs, Within
<1> QED
  BY <1>1, <1>3, <1>4, <1>5 DEF Follows

\* What is behind a place has the notes behind it for an outline.
LEMMA SuffixComplete ==
  ASSUME NEW b, NEW n, NEW Set, NEW s \in Seq(Set), NEW o, Complete(b, n, s, o),
         NEW i \in 1..(Len(s) + 1), NEW a \in o.at[i]
  PROVE  \E q : Complete(b, n, SubSeq(s, i, Len(s)), q) /\ a \in q.at[1]
<1> DEFINE m == Len(s) + 1 - i
           r == SubSeq(s, i, Len(s))
           q == [at |-> [k \in 1..(m + 1) |-> o.at[k + i - 1]], left |-> o.left]
<1>1. Len(s) \in Nat /\ m \in Nat
  BY LenProperties
<1>2. Len(r) = m /\ \A k \in 1..m : r[k] = s[k + i - 1]
  <2>1. \A k \in i..Len(s) : s[k] \in Set
    BY <1>1, ElementOfSeq
  <2>2. r \in Seq(Set) /\ Len(r) = IF i <= Len(s) THEN Len(s) - i + 1 ELSE 0
    BY <1>1, <2>1, SubSeqProperties
  <2>3. \A k \in 1..m : r[k] = s[k + i - 1]
    BY <1>1, <2>1, <2>2, SubSeqProperties
  <2> QED
    BY <1>1, <2>2, <2>3
<1>3. \A k \in 1..(m + 1) : k + i - 1 \in 1..(Len(s) + 1) /\ q.at[k] = o.at[k + i - 1]
  BY <1>1
<1>4. q.at \in [1..(m + 1) -> SUBSET Knowledge] /\ q.left \subseteq Knowledge
  BY <1>1, <1>3 DEF Complete, Sound
<1>5. ASSUME NEW k \in 1..m
      PROVE  /\ \A e \in q.at[k] : Follows(b, n, r[k], e, q.at[k + 1], q.left)
             /\ r[k].do \in Resuming => Within(q.left, q.at[k])
  <2>1. /\ k + i - 1 \in 1..Len(s) /\ r[k] = s[k + i - 1]
        /\ q.at[k] = o.at[k + i - 1]
    BY <1>1, <1>2, <1>3
  <2>2. q.at[k + 1] = o.at[(k + i - 1) + 1]
    <3>1. k + 1 \in 1..(m + 1) /\ (k + 1) + i - 1 = (k + i - 1) + 1
      BY <1>1
    <3> HIDE DEF q, m
    <3> QED
      BY <1>3, <3>1
  <2> HIDE DEF r, m
  <2> QED
    BY <2>1, <2>2 DEF Complete, Sound
<1>6. Sound(b, n, r, q)
  <2> HIDE DEF r, q, m
  <2> QED BY <1>2, <1>4, <1>5 DEF Sound
<1>7. \A e \in q.at[Len(r) + 1] : Ended(b, n, e)
  <2>1. q.at[m + 1] = o.at[Len(s) + 1]
    BY <1>1, <1>3
  <2> HIDE DEF r, q, m
  <2> QED BY <1>2, <2>1 DEF Complete
<1>8. q.at[1] = o.at[i]
  BY <1>1, <1>3
<1> HIDE DEF r, q, m
<1> QED
  BY <1>6, <1>7, <1>8 DEF Complete, r

\* Nothing left to do, with a note the call may end with.
LEMMA EndedComplete ==
  ASSUME NEW b, NEW n, NEW a \in Knowledge, Ended(b, n, a)
  PROVE  \E q : Complete(b, n, << >>, q) /\ a \in q.at[1]
<1> DEFINE q == [at |-> [k \in 1..1 |-> {a}], left |-> {}]
<1>1. Len(<< >>) = 0 /\ q.at[1] = {a} /\ q.left = {}
  BY EmptySeq
<1>2. q.at \in [1..1 -> SUBSET Knowledge]
  OBVIOUS
<1>3. Complete(b, n, << >>, q)
  <2> HIDE DEF q
  <2>1. 1..(Len(<< >>) + 1) = 1..1 /\ 1..Len(<< >>) = {}
    BY <1>1
  <2>2. \A e \in q.at[Len(<< >>) + 1] : Ended(b, n, e)
    BY <1>1
  <2> QED
    BY <1>1, <1>2, <2>1, <2>2 DEF Complete, Sound
<1> QED
  BY <1>1, <1>3

\* The outline of a program, and that of what is behind the statement that ran it.
LEMMA SpliceComplete ==
  ASSUME NEW b, NEW n, NEW Set, NEW s \in Seq(Set), s # << >>, NEW o, Complete(b, n, s, o),
         NEW p \in Seq(Set), NEW r, Sound(b, n, p, r),
         Within(r.at[Len(p) + 1], o.at[2]), Within(r.left, o.left),
         \A i \in DOMAIN p : p[i].do \notin Resuming
  PROVE  \E q : Complete(b, n, p \o Tail(s), q) /\ Within(r.at[1], q.at[1])
<1> DEFINE m == Len(p)
           l == Len(s)
           w == p \o Tail(s)
           q == [at |-> [k \in 1..(m + l) |-> IF k <= m THEN r.at[k] ELSE o.at[k + 1 - m]],
                 left |-> o.left]
<1>1. m \in Nat /\ l \in Nat /\ l > 0
  BY LenProperties, EmptySeq
<1>2. /\ Tail(s) \in Seq(Set) /\ Len(Tail(s)) = l - 1
      /\ \A k \in 1..(l - 1) : Tail(s)[k] = s[k + 1]
  BY <1>1, HeadTailProperties
<1>3. /\ Len(w) = m + l - 1
      /\ \A k \in 1..m : w[k] = p[k]
      /\ \A k \in (m + 1)..(m + l - 1) : w[k] = s[k + 1 - m]
  <2>1. Len(w) = m + (l - 1)
    BY <1>2, ConcatProperties
  <2>2. \A k \in 1..(m + (l - 1)) : w[k] = IF k <= m THEN p[k] ELSE Tail(s)[k - m]
    BY <1>2, ConcatProperties
  <2>3. ASSUME NEW k \in (m + 1)..(m + l - 1) PROVE w[k] = s[k + 1 - m]
    <3>1. k - m \in 1..(l - 1) /\ (k - m) + 1 = k + 1 - m
      BY <1>1
    <3> QED
      BY <1>1, <1>2, <2>2, <3>1
  <2> QED
    BY <1>1, <2>1, <2>2, <2>3
<1>4. \A k \in 1..(m + l) : q.at[k] = IF k <= m THEN r.at[k] ELSE o.at[k + 1 - m]
  OBVIOUS
<1>5. q.at \in [1..(m + l) -> SUBSET Knowledge] /\ q.left = o.left /\ o.left \subseteq Knowledge
  <2>1. ASSUME NEW k \in 1..(m + l)
        PROVE  (IF k <= m THEN r.at[k] ELSE o.at[k + 1 - m]) \in SUBSET Knowledge
    <3>0. /\ r.at \in [1..(m + 1) -> SUBSET Knowledge]
          /\ o.at \in [1..(l + 1) -> SUBSET Knowledge]
      BY DEF Sound, Complete
    <3>1. k <= m => k \in 1..(m + 1)
      BY <1>1
    <3>4. k <= m => r.at[k] \in SUBSET Knowledge
      BY <3>0, <3>1
    <3>2. ~(k <= m) => k + 1 - m \in 1..(l + 1)
      BY <1>1
    <3>3. ~(k <= m) => o.at[k + 1 - m] \in SUBSET Knowledge
      BY <3>0, <3>2
    <3> QED
      BY <3>3, <3>4
  <2> QED
    BY <2>1 DEF Complete, Sound
<1>6. Within(r.at[m + 1], q.at[m + 1])
  <2>1. q.at[m + 1] = o.at[2]
    BY <1>1, <1>4
  <2> HIDE DEF q
  <2> QED
    BY <2>1
<1>7. ASSUME NEW k \in 1..m
      PROVE  /\ \A a \in q.at[k] : Follows(b, n, w[k], a, q.at[k + 1], q.left)
             /\ w[k].do \in Resuming => Within(q.left, q.at[k])
  <2>1. q.at[k] = r.at[k] /\ w[k] = p[k] /\ k \in DOMAIN p /\ q.left = o.left
    BY <1>1, <1>3, <1>4, LenProperties
  <2>2. Within(r.at[k + 1], q.at[k + 1])
    <3>1. CASE k + 1 <= m
      <4>1. q.at[k + 1] = r.at[k + 1]
        BY <1>1, <1>4, <3>1
      <4> QED
        BY <4>1, AmongAny DEF Within
    <3>2. CASE ~(k + 1 <= m)
      <4>1. k = m
        BY <1>1, <3>2
      <4> QED
        BY <1>6, <4>1
    <3> QED
      BY <3>1, <3>2
  <2>3. \A a \in r.at[k] : Follows(b, n, p[k], a, r.at[k + 1], r.left)
    BY DEF Sound
  <2> HIDE DEF q, w, m, l
  <2> QED
    BY <2>1, <2>2, <2>3, FollowsWithin
<1>8. ASSUME NEW k \in (m + 1)..(m + l - 1)
      PROVE  /\ \A a \in q.at[k] : Follows(b, n, w[k], a, q.at[k + 1], q.left)
             /\ w[k].do \in Resuming => Within(q.left, q.at[k])
  <2>1. /\ k + 1 - m \in 1..l /\ w[k] = s[k + 1 - m] /\ q.left = o.left
        /\ q.at[k] = o.at[k + 1 - m] /\ q.at[k + 1] = o.at[(k + 1 - m) + 1]
    BY <1>1, <1>3, <1>4
  <2> HIDE DEF q, w, m
  <2> QED
    BY <2>1 DEF Complete, Sound
<1>9. Sound(b, n, w, q)
  <2>1. \A k \in 1..Len(w) : k \in 1..m \/ k \in (m + 1)..(m + l - 1)
    BY <1>1, <1>3
  <2>2. Len(w) + 1 = m + l
    BY <1>1, <1>3
  <2> HIDE DEF q, w, m, l
  <2> QED
    BY <1>5, <1>7, <1>8, <2>1, <2>2 DEF Sound
<1>10. \A a \in q.at[Len(w) + 1] : Ended(b, n, a)
  <2>1. q.at[Len(w) + 1] = o.at[l + 1]
    BY <1>1, <1>3, <1>4
  <2> HIDE DEF q, w, m
  <2> QED
    BY <2>1 DEF Complete
<1>11. Within(r.at[1], q.at[1])
  <2>1. CASE m = 0
    BY <1>6, <2>1
  <2>2. CASE m # 0
    <3>1. q.at[1] = r.at[1]
      BY <1>1, <1>4, <2>2
    <3> QED
      BY <3>1, AmongAny DEF Within
  <2> QED
    BY <2>1, <2>2
<1> HIDE DEF q, m, l
<1> QED
  BY <1>9, <1>10, <1>11 DEF Complete
-----------------------------------------------------------------------------
(* The place of a call in its outline. *)

\* A call stands at the first place of an outline of what it has left to do.
Luck == IF faults = 0 THEN "quiet" ELSE IF "fault" \in trouble THEN "hurt" ELSE "sound"
Says == IF answer.how \in {"table", "mutates"} THEN answer.t ELSE ""
Fits(a) == Matches(a, before.cols, cur, chain, Luck, Says, marked, db)
Position(o, a) ==
  Complete(backend, call, todo, o) /\ a \in o.at[1] /\ a \in Knowledge /\ Fits(a)
Placed == \E o : \E a \in o.at[1] : Position(o, a)

\* What the outline says of the next statement.
LEMMA PositionNotes ==
  ASSUME IInv, ~Idle, NEW o, NEW a, Position(o, a)
  PROVE  /\ Follows(backend, call, S, a, o.at[2], o.left)
         /\ o.at[2] \subseteq Knowledge /\ o.left \subseteq Knowledge
         /\ \A i \in DOMAIN todo :
              /\ o.at[i] \subseteq Knowledge
              /\ todo[i].do \in Resuming => Within(o.left, o.at[i])
<1>1. /\ Len(todo) \in Nat /\ Len(todo) > 0 /\ todo[1] = S /\ DOMAIN todo = 1..Len(todo)
  BY LenProperties, EmptySeq, HeadTailProperties DEF IInv, Idle, S
<1>2. 1 \in 1..Len(todo) /\ 1 + 1 = 2 /\ 2 \in 1..(Len(todo) + 1)
  BY <1>1
<1>3. Sound(backend, call, todo, o) /\ a \in o.at[1]
  BY DEF Position, Complete
<1>4. o.at \in [1..(Len(todo) + 1) -> SUBSET Knowledge] /\ o.left \subseteq Knowledge
  BY <1>3 DEF Sound
<1>5. \A i \in 1..Len(todo) : i \in 1..(Len(todo) + 1)
  BY <1>1
<1>6. \A i \in 1..Len(todo) :
        /\ \A e \in o.at[i] : Follows(backend, call, todo[i], e, o.at[i + 1], o.left)
        /\ todo[i].do \in Resuming => Within(o.left, o.at[i])
  BY <1>3 DEF Sound
<1> QED
  BY <1>1, <1>2, <1>3, <1>4, <1>5, <1>6

\* The next place is reached with something that is noted there.
LEMMA GoesOn ==
  ASSUME IInv, ~Idle, NEW o, NEW a, Position(o, a), todo' = Tail(todo),
         UNCHANGED <<backend, call>>, NEW e, Among(e, o.at[2]), Fits(e)'
  PROVE  Placed'
<1>1. PICK f \in o.at[2] : Fits(f)'
  BY MatchesAmong DEF Fits
<1>2. f \in Knowledge
  BY PositionNotes
<1>3. Len(todo) \in Nat /\ Len(todo) > 0 /\ Tail(todo) = SubSeq(todo, 2, Len(todo))
  BY LenProperties, EmptySeq, HeadTailProperties DEF IInv, Idle
<1>4. 2 \in 1..(Len(todo) + 1)
  BY <1>3
<1>5. PICK q : /\ Complete(backend, call, SubSeq(todo, 2, Len(todo)), q)
               /\ f \in q.at[1]
  BY <1>4, SuffixComplete DEF Position, IInv
<1> QED
  BY <1>1, <1>2, <1>3, <1>5 DEF Placed, Position

\* The call ends with something that promises nothing Rebuild does not keep.
LEMMA EndsPlaced ==
  ASSUME todo' = << >>, UNCHANGED <<backend, call>>,
         NEW a \in Knowledge, Fits(a)', Ended(backend, call, a)
  PROVE  Placed'
<1>1. PICK q : Complete(backend, call, << >>, q) /\ a \in q.at[1]
  BY EndedComplete
<1> QED
  BY <1>1 DEF Placed, Position

\* Noting what is put into a table.
LEMMA PutKnown ==
  ASSUME NEW a \in Knowledge, NEW t \in Tables, NEW h \in SUBSET Contents
  PROVE  Put(a, t, h) \in Knowledge
BY DEF Put, Knowledge

LEMMA PutMatches ==
  ASSUME NEW a \in Knowledge, NEW t \in Tables, NEW h \in SUBSET Contents,
         NEW was, NEW cr, NEW ch, NEW luck, NEW says, NEW mark, NEW d \in [Tables -> Contents],
         Matches(a, was, cr, ch, luck, says, mark, d), NEW c \in h
  PROVE  Matches(Put(a, t, h), was, cr, ch, luck, says, mark, [d EXCEPT ![t] = c])
<1>1. /\ \A x \in {"was", "cur", "chain", "luck", "says", "marked"} : Put(a, t, h)[x] = a[x]
      /\ \A x \in Tables : Put(a, t, h).held[x] = IF x = t THEN h ELSE a.held[x]
  BY DEF Put, Knowledge
<1>2. \A x \in Tables : [d EXCEPT ![t] = c][x] = IF x = t THEN c ELSE d[x]
  OBVIOUS
<1> QED
  BY <1>1, <1>2 DEF Matches
-----------------------------------------------------------------------------
(* Statements and their notes. *)

\* A note's tables stand for the call's.
LEMMA MeantTables ==
  ASSUME IInv, ~Idle, NEW a \in Knowledge, Fits(a)
  PROVE  /\ Meant(a, S.t) = T /\ Meant(a, S.from) = F
         /\ \A x \in Tables : db[x] \in a.held[x] /\ (Exists(x) => db[x] \in There(a, x))
         /\ \A x \in Tables : There(a, x) \subseteq Contents /\ a.held[x] \subseteq Contents
         /\ db \in [Tables -> Contents] /\ before.cols = a.was
<1>1. Meant(a, S.t) = T /\ Meant(a, S.from) = F
  BY DEF Meant, T, F, At, Fits, Matches
<1>2. \A x \in Tables : db[x] \in a.held[x]
  BY DEF Fits, Matches
<1>3. a.held \in [Tables -> SUBSET Contents]
  BY DEF Knowledge
<1> QED
  BY <1>1, <1>2, <1>3 DEF There, Exists, IInv, TypeOK, Fits, Matches

\* The note e is true of the call with the tables d.
Noted(e, d) == Matches(e, before.cols, cur, chain, Luck, Says, marked, d)

LEMMA ColumnsReplaced ==
  ASSUME NEW c \in Contents, NEW x
  PROVE  [c EXCEPT !.cols = x] = [rows |-> c.rows, cols |-> x]
BY DEF Contents

\* Other columns in a table that is there.
LEMMA RecolumnedNoted ==
  ASSUME IInv, NEW a \in Knowledge, NEW t \in Tables, NEW d \in [Tables -> Contents],
         Noted(a, d), d[t] # NoTable, NEW less, NEW more \in SUBSET Columns
  PROVE  Noted(Recolumned(a, t, less, more),
               [d EXCEPT ![t].cols = (@ \ less) \cup more])
<1> DEFINE h == {[rows |-> c.rows, cols |-> (c.cols \ less) \cup more] : c \in There(a, t)}
           k == [rows |-> d[t].rows, cols |-> (d[t].cols \ less) \cup more]
<1>1. d[t] \in There(a, t)
  BY DEF Noted, Matches, There
<1>2. h \in SUBSET Contents
  <2>1. There(a, t) \subseteq Contents
    BY DEF Knowledge, There
  <2>2. \A c \in Contents : [rows |-> c.rows, cols |-> (c.cols \ less) \cup more] \in Contents
    BY DEF Contents
  <2> QED
    BY <2>1, <2>2
<1>3. k \in h
  BY <1>1
<1>4. [d EXCEPT ![t].cols = (@ \ less) \cup more] = [d EXCEPT ![t] = k]
  <2>0. d[t] \in Contents
    OBVIOUS
  <2>1. [d[t] EXCEPT !.cols = (d[t].cols \ less) \cup more] = k
    BY <2>0, ColumnsReplaced
  <2>2. [d EXCEPT ![t].cols = (@ \ less) \cup more]
          = [d EXCEPT ![t] = [d[t] EXCEPT !.cols = (d[t].cols \ less) \cup more]]
    OBVIOUS
  <2> QED
    BY <2>1, <2>2
<1> HIDE DEF h, k
<1>5. Noted(Put(a, t, h), [d EXCEPT ![t] = k])
  BY <1>2, <1>3, PutMatches DEF Noted
<1> QED
  BY <1>4, <1>5 DEF Recolumned, h

\* What a statement does to the tables is what its note says it does.
LEMMA EffectNoted ==
  ASSUME IInv, ~Idle, NEW a \in Knowledge, Fits(a),
         \/ ReadTable \/ AddColumns \/ DropColumnsOf \/ FillColumns \/ DropTable
         \/ RenameTable \/ RenameTableIn \/ ExchangeTables \/ InsertRows \/ MakeTable
         \/ PassCheck \/ TakeBranch
  PROVE  Noted(After(a, S), db') /\ Able
<1>a. Noted(a, db) /\ db \in [Tables -> Contents]
  BY DEF Fits, Noted, IInv, TypeOK
<1>b. /\ Meant(a, S.t) = T /\ Meant(a, S.from) = F
      /\ S.do \in Naming => T \in Tables
      /\ S.do \in Pairing => F \in Tables
      /\ "src" \in Tables
  BY MeantTables, HeadTyped DEF Tables
<1>c. \A x \in Tables : There(a, x) \in SUBSET Contents /\ a.held[x] \in SUBSET Contents
  BY MeantTables
<1>d. \A x \in Tables : db[x] \in a.held[x] /\ (Exists(x) => db[x] \in There(a, x))
  BY MeantTables
<1>e. {NoTable} \in SUBSET Contents
  BY PlainTyped
<1>f. S.cols \in SUBSET Columns /\ S.less \in SUBSET Columns /\ S.rows \in Amounts
  BY HeadTyped DEF Statement
<1>g. \A x \in Tables : [db EXCEPT ![x] = db[x]] = db
  BY <1>a
<1>1. CASE ReadTable
  <2>1. S.do = "read" /\ Able /\ db' = db
    BY <1>1 DEF ReadTable, Doing, Effect
  <2>2. Exists(T) /\ T \in Tables
    BY <2>1, <1>b DEF Able, Naming
  <2>3. After(a, S) = Put(a, T, There(a, T))
    BY <2>1, <1>b DEF After
  <2>4. Noted(Put(a, T, There(a, T)), [db EXCEPT ![T] = db[T]])
    BY <2>2, <1>a, <1>c, <1>d, PutMatches DEF Noted
  <2> QED
    BY <2>1, <2>2, <2>3, <2>4, <1>g
<1>2. CASE AddColumns
  <2>1. S.do \in {"add", "addif"} /\ Able /\ db' = [db EXCEPT ![T].cols = @ \cup S.cols]
    BY <1>2 DEF AddColumns, Doing, Effect
  <2>2. Exists(T) /\ T \in Tables
    BY <2>1, <1>b DEF Able, Naming
  <2>3. After(a, S) = Recolumned(a, T, {}, S.cols)
    <3>1. CASE S.do = "add" BY <3>1, <1>b DEF After
    <3>2. CASE S.do = "addif" BY <3>2, <1>b DEF After
    <3> QED BY <2>1, <3>1, <3>2
  <2>4. Noted(Recolumned(a, T, {}, S.cols), [db EXCEPT ![T].cols = (@ \ {}) \cup S.cols])
    BY <2>2, <1>a, <1>f, RecolumnedNoted DEF Exists
  <2>5. db' = [db EXCEPT ![T].cols = (@ \ {}) \cup S.cols]
    BY <2>1
  <2> QED
    BY <2>1, <2>3, <2>4, <2>5
<1>3. CASE DropColumnsOf
  <2>1. S.do \in {"dropcol", "dropadded"} /\ Able
    BY <1>3 DEF DropColumnsOf, Doing, Effect
  <2>2. Exists(T) /\ T \in Tables
    BY <2>1, <1>b DEF Able, Naming
  <2> DEFINE x == IF S.do = "dropcol" THEN S.cols ELSE S.cols \ a.was
  <2>3. db' = [db EXCEPT ![T].cols = @ \ x]
    <3>1. before.cols = a.was
      BY MeantTables
    <3> QED
      BY <1>3, <3>1 DEF DropColumnsOf, Doing, Effect
  <2>4. After(a, S) = Recolumned(a, T, x, {})
    <3>1. CASE S.do = "dropcol" BY <3>1, <1>b DEF After
    <3>2. CASE S.do = "dropadded" BY <3>2, <1>b DEF After
    <3> QED BY <2>1, <3>1, <3>2
  <2> HIDE DEF x
  <2>5. Noted(Recolumned(a, T, x, {}), [db EXCEPT ![T].cols = (@ \ x) \cup {}])
    BY <2>2, <1>a, RecolumnedNoted DEF Exists
  <2>6. db' = [db EXCEPT ![T].cols = (@ \ x) \cup {}]
    BY <2>3
  <2> QED
    BY <2>1, <2>4, <2>5, <2>6
<1>4. CASE FillColumns
  <2>1. S.do = "fill" /\ Able
    BY <1>4 DEF FillColumns, Doing, Effect
  <2>2. Exists(T) /\ T \in Tables
    BY <2>1, <1>b DEF Able, Naming
  <2>3. CASE "own" \in S.cols
    <3> DEFINE h == {[rows |-> "other", cols |-> c.cols] : c \in There(a, T)}
               k == [rows |-> "other", cols |-> db[T].cols]
    <3>1. db' = [db EXCEPT ![T].rows = "other"]
      BY <1>4, <2>3 DEF FillColumns, Effect
    <3>2. After(a, S) = Put(a, T, h)
      BY <2>1, <2>3, <1>b DEF After
    <3>3. k \in h
      BY <2>2, <1>d
    <3>4. h \in SUBSET Contents
      BY <2>2, <1>c DEF Contents, Amounts
    <3>5. [db EXCEPT ![T].rows = "other"] = [db EXCEPT ![T] = k]
      <4>1. [db[T] EXCEPT !.rows = "other"] = k
        BY <1>a, <2>2 DEF Contents
      <4> QED
        BY <4>1
    <3> HIDE DEF h, k
    <3>6. Noted(Put(a, T, h), [db EXCEPT ![T] = k])
      BY <1>a, <2>2, <3>3, <3>4, PutMatches DEF Noted
    <3> QED
      BY <2>1, <3>1, <3>2, <3>5, <3>6
  <2>4. CASE "own" \notin S.cols
    <3>1. db' = db
      BY <1>4, <2>4 DEF FillColumns, Effect
    <3>2. After(a, S) = a
      BY <2>1, <2>4 DEF After
    <3> QED
      BY <2>1, <3>1, <3>2, <1>a
  <2> QED
    BY <2>3, <2>4
<1>5. CASE DropTable
  <2>1. S.do \in {"drop", "dropif"} /\ Able /\ db' = [db EXCEPT ![T] = NoTable]
    BY <1>5 DEF DropTable, Doing, Effect
  <2>2. T \in Tables
    BY <2>1, <1>b DEF Naming
  <2>3. After(a, S) = Put(a, T, {NoTable})
    <3>1. CASE S.do = "drop" BY <3>1, <1>b DEF After
    <3>2. CASE S.do = "dropif" BY <3>2, <1>b DEF After
    <3> QED BY <2>1, <3>1, <3>2
  <2>4. Noted(Put(a, T, {NoTable}), [db EXCEPT ![T] = NoTable])
    BY <2>2, <1>a, <1>e, PutMatches DEF Noted
  <2> QED
    BY <2>1, <2>3, <2>4
<1>6. CASE RenameTable
  <2>1. /\ S.do = "rename" /\ Able
        /\ db' = [db EXCEPT ![F] = db[T], ![T] = NoTable]
    BY <1>6 DEF RenameTable, Doing, Effect
  <2>2. Exists(T) /\ T \in Tables /\ F \in Tables
    BY <2>1, <1>b DEF Able, Naming, Pairing
  <2>3. After(a, S) = Put(Put(a, F, There(a, T)), T, {NoTable})
    BY <2>1, <1>b DEF After
  <2>4. Noted(Put(a, F, There(a, T)), [db EXCEPT ![F] = db[T]])
    BY <2>2, <1>a, <1>c, <1>d, PutMatches DEF Noted
  <2>5. /\ Put(a, F, There(a, T)) \in Knowledge
        /\ [db EXCEPT ![F] = db[T]] \in [Tables -> Contents]
    BY <2>2, <1>a, <1>c, PutKnown
  <2>6. Noted(Put(Put(a, F, There(a, T)), T, {NoTable}),
              [[db EXCEPT ![F] = db[T]] EXCEPT ![T] = NoTable])
    BY <2>2, <2>4, <2>5, <1>e, PutMatches DEF Noted
  <2> QED
    BY <2>1, <2>3, <2>6
<1>7. CASE RenameTableIn
  <2>1. /\ S.do = "renamein" /\ Able
        /\ db' = [db EXCEPT !["src"] = db[T], ![F] = db["src"], ![T] = NoTable]
    BY <1>7 DEF RenameTableIn, Doing, Effect
  <2>2. Exists(T) /\ Exists("src") /\ T \in Tables /\ F \in Tables
    BY <2>1, <1>b DEF Able, Naming, Pairing
  <2> DEFINE e == Put(a, "src", There(a, T))
             g == Put(e, F, There(a, "src"))
             d == [db EXCEPT !["src"] = db[T]]
             c == [d EXCEPT ![F] = db["src"]]
  <2>3. After(a, S) = Put(g, T, {NoTable})
    BY <2>1, <1>b DEF After
  <2>4. Noted(e, d) /\ e \in Knowledge /\ d \in [Tables -> Contents]
    BY <2>2, <1>a, <1>b, <1>c, <1>d, PutMatches, PutKnown DEF Noted
  <2>5. Noted(g, c) /\ g \in Knowledge /\ c \in [Tables -> Contents]
    <3> HIDE DEF e, d
    <3> QED
      BY <2>2, <2>4, <1>a, <1>b, <1>c, <1>d, PutMatches, PutKnown DEF Noted
  <2>6. Noted(Put(g, T, {NoTable}), [c EXCEPT ![T] = NoTable])
    <3> HIDE DEF g, c
    <3> QED
      BY <2>2, <2>5, <1>e, PutMatches DEF Noted
  <2>7. db' = [c EXCEPT ![T] = NoTable]
    BY <2>1
  <2> QED
    BY <2>1, <2>3, <2>6, <2>7
<1>8. CASE ExchangeTables
  <2>1. /\ S.do = "exchange" /\ Able
        /\ db' = [db EXCEPT ![F] = db[T], ![T] = db[F]]
    BY <1>8 DEF ExchangeTables, Doing, Effect
  <2>2. Exists(T) /\ Exists(F) /\ T \in Tables /\ F \in Tables
    BY <2>1, <1>b DEF Able, Naming, Pairing
  <2> DEFINE e == Put(a, F, There(a, T))
             d == [db EXCEPT ![F] = db[T]]
  <2>3. After(a, S) = Put(e, T, There(a, F))
    BY <2>1, <1>b DEF After
  <2>4. Noted(e, d) /\ e \in Knowledge /\ d \in [Tables -> Contents]
    BY <2>2, <1>a, <1>c, <1>d, PutMatches, PutKnown DEF Noted
  <2>5. Noted(Put(e, T, There(a, F)), [d EXCEPT ![T] = db[F]])
    <3> HIDE DEF e, d
    <3> QED
      BY <2>2, <2>4, <1>c, <1>d, PutMatches DEF Noted
  <2> QED
    BY <2>1, <2>3, <2>5
<1>9. CASE InsertRows
  <2>1. /\ S.do = "insert" /\ Able
        /\ db' = [db EXCEPT ![T].rows = Selected.rows]
    BY <1>9 DEF InsertRows, Doing, Effect
  <2>2. Exists(T) /\ Exists(F) /\ T \in Tables /\ F \in Tables
    BY <2>1, <1>b DEF Able, Naming, Pairing
  <2> DEFINE h == {[rows |-> Rows(S, d), cols |-> c.cols] : c \in There(a, T), d \in There(a, F)}
             k == [rows |-> Rows(S, db[F]), cols |-> db[T].cols]
  <2>3. After(a, S) = Put(a, T, h)
    BY <2>1, <1>b DEF After
  <2>4. k \in h
    BY <2>2, <1>d
  <2>5. h \in SUBSET Contents
    <3>1. \A c \in Contents, d \in Contents : [rows |-> Rows(S, d), cols |-> c.cols] \in Contents
      BY <1>f DEF Contents, Rows
    <3> QED
      BY <2>2, <1>c, <3>1
  <2>6. [db EXCEPT ![T].rows = Selected.rows] = [db EXCEPT ![T] = k]
    <3>1. Selected.rows = Rows(S, db[F])
      BY DEF Selected, Rows
    <3>2. [db[T] EXCEPT !.rows = Selected.rows] = k
      BY <1>a, <2>2, <3>1 DEF Contents
    <3> QED
      BY <3>2
  <2> HIDE DEF h, k
  <2>7. Noted(Put(a, T, h), [db EXCEPT ![T] = k])
    BY <1>a, <2>2, <2>4, <2>5, PutMatches DEF Noted
  <2> QED
    BY <2>1, <2>3, <2>6, <2>7
<1>10. CASE MakeTable
  <2>1. /\ S.do \in {"make", "replace"} /\ Able
        /\ db' = [db EXCEPT ![T] = Selected]
    BY <1>10 DEF MakeTable, Doing, Effect
  <2>2. Exists(F) /\ T \in Tables /\ F \in Tables
    BY <2>1, <1>b DEF Able, Naming, Pairing
  <2> DEFINE h == {[rows |-> Rows(S, d), cols |-> (d.cols \ S.less) \cup S.cols] :
                     d \in There(a, F)}
  <2>3. After(a, S) = Put(a, T, h)
    <3>1. CASE S.do = "make" BY <3>1, <1>b DEF After
    <3>2. CASE S.do = "replace" BY <3>2, <1>b DEF After
    <3> QED BY <2>1, <3>1, <3>2
  <2>4. Selected \in h
    BY <2>2, <1>d DEF Selected, Rows
  <2>5. h \in SUBSET Contents
    <3>1. \A d \in Contents :
            [rows |-> Rows(S, d), cols |-> (d.cols \ S.less) \cup S.cols] \in Contents
      BY <1>f DEF Contents, Rows
    <3> QED
      BY <2>2, <1>c, <3>1
  <2> HIDE DEF h
  <2>6. Noted(Put(a, T, h), [db EXCEPT ![T] = Selected])
    BY <1>a, <2>2, <2>4, <2>5, PutMatches DEF Noted
  <2> QED
    BY <2>1, <2>3, <2>6
<1>11. CASE PassCheck
  <2>1. S.do = "check" /\ Able /\ db' = db
    BY <1>11 DEF PassCheck, Doing, Effect
  <2>2. After(a, S) = a
    BY <2>1 DEF After
  <2> QED
    BY <2>1, <2>2, <1>a
<1>12. CASE TakeBranch
  <2>1. /\ S.do \in {"has", "lacks"} /\ Able /\ db' = db
        /\ S.do = "has" => S.cols \subseteq db[T].cols
        /\ S.do = "lacks" => S.cols \cap db[T].cols = {}
    BY <1>12 DEF TakeBranch, Doing, Effect
  <2>2. T \in Tables
    BY <2>1, <1>b DEF Naming
  <2>3. ASSUME NEW h, h \subseteq a.held[T], db[T] \in h, After(a, S) = Put(a, T, h)
        PROVE  Noted(After(a, S), db)
    <3>1. h \in SUBSET Contents
      BY <2>2, <2>3, <1>c
    <3>2. Noted(Put(a, T, h), [db EXCEPT ![T] = db[T]])
      BY <1>a, <2>2, <2>3, <3>1, PutMatches DEF Noted
    <3> QED
      BY <2>2, <2>3, <3>2, <1>g
  <2>4. CASE S.do = "has"
    <3>1. After(a, S) = Put(a, T, {c \in a.held[T] : S.cols \subseteq c.cols})
      BY <2>4, <1>b DEF After
    <3> QED
      BY <2>1, <2>2, <2>3, <2>4, <3>1, <1>d
  <2>5. CASE S.do = "lacks"
    <3>1. After(a, S) = Put(a, T, {c \in a.held[T] : S.cols \cap c.cols = {}})
      BY <2>5, <1>b DEF After
    <3> QED
      BY <2>1, <2>2, <2>3, <2>5, <3>1, <1>d
  <2> QED
    BY <2>1, <2>4, <2>5
<1> QED
  BY <1>1, <1>2, <1>3, <1>4, <1>5, <1>6, <1>7, <1>8, <1>9, <1>10, <1>11, <1>12

\* The database can run what it cannot refuse.
LEMMA SureAble ==
  ASSUME IInv, ~Idle, NEW a \in Knowledge, Fits(a), Sure(backend, a, S)
  PROVE  Able
<1>1. /\ Meant(a, S.t) = T /\ Meant(a, S.from) = F
      /\ S.do \in Naming => T \in Tables
      /\ S.do \in Pairing => F \in Tables
      /\ "src" \in Tables
  BY MeantTables, HeadTyped DEF Tables
<1>2. \A x \in Tables : /\ db[x] \in a.held[x]
                        /\ Exists(x) => db[x] \in There(a, x)
                        /\ NoTable \notin a.held[x] => Exists(x)
                        /\ There(a, x) = {} => ~Exists(x)
  BY MeantTables DEF Exists
<1>3. CASE S.do \in {"read", "addif", "dropcol", "dropadded", "drop"}
  <2>1. T \in Tables
    BY <1>1, <1>3 DEF Naming
  <2>2. NoTable \notin a.held[T]
    BY <1>1, <1>3 DEF Sure
  <2> QED
    BY <1>2, <1>3, <2>1, <2>2 DEF Able
<1>4. CASE S.do \in {"add", "fill"}
  <2>1. T \in Tables
    BY <1>1, <1>4 DEF Naming
  <2>2. /\ NoTable \notin a.held[T]
        /\ S.do = "add" => \A c \in a.held[T] : S.cols \cap c.cols = {}
        /\ S.do = "fill" => \A c \in a.held[T] : S.cols \subseteq c.cols
    BY <1>1, <1>4 DEF Sure
  <2> QED
    BY <1>2, <1>4, <2>1, <2>2 DEF Able
<1>5. CASE S.do \in {"rename", "renamein", "exchange", "insert"}
  <2>1. T \in Tables /\ F \in Tables
    BY <1>1, <1>5 DEF Naming, Pairing
  <2>2. /\ NoTable \notin a.held[T]
        /\ S.do \in {"rename", "renamein"} => There(a, F) = {}
        /\ S.do = "renamein" => NoTable \notin a.held["src"]
        /\ S.do \in {"exchange", "insert"} => NoTable \notin a.held[F]
    BY <1>1, <1>5 DEF Sure
  <2> QED
    BY <1>1, <1>2, <1>5, <2>1, <2>2 DEF Able
<1>6. CASE S.do \in {"make", "replace"}
  <2>1. T \in Tables /\ F \in Tables
    BY <1>1, <1>6 DEF Naming, Pairing
  <2>2. /\ NoTable \notin a.held[F]
        /\ S.do = "make" => There(a, T) = {}
        /\ \/ backend = "duckdb"
           \/ \A d \in There(a, F) : (d.cols \ S.less) \cap S.cols = {}
    BY <1>1, <1>6 DEF Sure
  <2>3. Exists(F) /\ db[F] \in There(a, F)
    BY <1>2, <2>1, <2>2
  <2>4. Distinct
    BY <2>2, <2>3 DEF Distinct
  <2> QED
    BY <1>2, <1>6, <2>1, <2>2, <2>3, <2>4 DEF Able
<1>7. CASE S.do \notin {"read", "addif", "dropcol", "dropadded", "drop", "add", "fill",
                        "rename", "renamein", "exchange", "insert", "make", "replace"}
  BY <1>7 DEF Able
<1> QED
  BY <1>3, <1>4, <1>5, <1>6, <1>7

\* A statement that is carried out.
LEMMA StatementsPlaced ==
  ASSUME IInv, ~Idle, NEW o, NEW a, Position(o, a),
         \/ ReadTable \/ AddColumns \/ DropColumnsOf \/ FillColumns \/ DropTable
         \/ RenameTable \/ RenameTableIn \/ ExchangeTables \/ InsertRows \/ MakeTable
         \/ PassCheck \/ TakeBranch
  PROVE  Placed'
<1>1. /\ todo' = Tail(todo)
      /\ UNCHANGED <<backend, marked, call, before, cur, chain, trouble, answer, faults>>
      /\ S.do \notin {"run", "refuse", "collect"}
  BY DEF ReadTable, AddColumns, DropColumnsOf, FillColumns, DropTable, RenameTable,
         RenameTableIn, ExchangeTables, InsertRows, MakeTable, PassCheck, TakeBranch,
         Doing, Effect
<1>2. a \in Knowledge /\ Fits(a)
  BY DEF Position
<1>3. Noted(After(a, S), db')
  BY <1>2, EffectNoted
<1>4. Among(After(a, S), o.at[2])
  BY <1>1, PositionNotes DEF Follows
<1>5. PICK e : e = After(a, S)
  OBVIOUS
<1>6. Fits(e)'
  BY <1>1, <1>3, <1>5 DEF Noted, Fits, Luck, Says
<1> QED
  BY <1>1, <1>4, <1>5, <1>6, GoesOn

\* A call that is stopped ends, or goes on at the next function of its chain.
LEMMA StopsPlaced ==
  ASSUME IInv, ~Idle, NEW o, NEW a, Position(o, a), Unwind,
         UNCHANGED <<backend, call, before, cur, chain, marked>>,
         NEW u \in Knowledge, Stops(backend, call, u, o.left),
         Matches(u, before.cols, cur, chain, Luck', Says, marked, db'),
         chain = "none" => answer'.how \notin {"table", "mutates"},
         chain # "none" => answer' = answer
  PROVE  Placed'
<1>1. u.chain = chain
  BY DEF Matches
<1>2. CASE chain = "none"
  <2>1. todo' = << >> /\ Ended(backend, call, Unanswered(u))
    BY <1>1, <1>2 DEF Unwind, Stops
  <2>2. Says' = ""
    BY <1>2 DEF Says
  <2>3. Unanswered(u) \in Knowledge
    BY DEF Unanswered, Knowledge
  <2>4. Fits(Unanswered(u))'
    <3>1. /\ \A x \in {"was", "cur", "chain", "luck", "marked", "held"} : Unanswered(u)[x] = u[x]
          /\ Unanswered(u).says = ""
      BY DEF Unanswered, Knowledge
    <3> QED
      BY <2>2, <3>1 DEF Fits, Matches
  <2> QED
    BY <2>1, <2>3, <2>4, EndsPlaced
<1>3. CASE chain # "none"
  <2>1. Among(u, o.left) /\ Fits(u)'
    BY <1>1, <1>3 DEF Stops, Fits, Says
  <2>2. PICK f \in o.left : Fits(f)'
    BY <2>1, MatchesAmong DEF Fits
  <2>3. PICK i \in DOMAIN todo : /\ todo[i].do \in Resuming
                                 /\ todo' = SubSeq(todo, i, Len(todo))
    BY <1>3 DEF Unwind, Resuming
  <2>4. Within(o.left, o.at[i]) /\ o.at[i] \subseteq Knowledge
    BY <2>3, PositionNotes
  <2>5. PICK g \in o.at[i] : Fits(g)'
    BY <2>2, <2>4, MatchesAmong DEF Fits, Within
  <2>6. /\ todo \in Seq(Named(backend)) /\ Complete(backend, call, todo, o)
        /\ i \in 1..(Len(todo) + 1)
    BY LenProperties DEF IInv, Position
  <2>7. PICK q : Complete(backend, call, SubSeq(todo, i, Len(todo)), q) /\ g \in q.at[1]
    BY <2>6, SuffixComplete
  <2>8. Complete(backend, call, todo, q)' /\ g \in q.at[1] /\ g \in Knowledge
    BY <2>3, <2>4, <2>7
  <2> QED
    BY <2>5, <2>8 DEF Placed, Position
<1> QED
  BY <1>2, <1>3

\* A statement that fails.
LEMMA FailsPlaced ==
  ASSUME IInv, ~Idle, NEW o, NEW a, Position(o, a), NEW why, FailStatement(why),
         NEW e \in Knowledge, Fails(backend, call, S, e, o.at[2], o.left),
         Matches(e, before.cols, cur, chain, Luck', Says, marked, db)
  PROVE  Placed'
<1>1. UNCHANGED <<backend, marked, call, before, cur, chain, repeats>>
  BY DEF FailStatement
<1>2. CASE S.soft
  <2>1. todo' = Tail(todo) /\ UNCHANGED <<db, answer>> /\ Among(e, o.at[2])
    BY <1>2 DEF FailStatement, Fails
  <2>2. Fits(e)'
    BY <1>1, <2>1 DEF Fits, Says
  <2> QED
    BY <1>1, <2>1, <2>2, GoesOn
<1>3. CASE ~S.soft
  <2>0. PICK u : u = Undone(e, S)
    OBVIOUS
  <2>1. /\ Unwind
        /\ db' = IF S.undo = "" THEN db ELSE [db EXCEPT ![At(S.undo)] = NoTable]
        /\ answer' = IF chain = "none" THEN [answer EXCEPT !.how = "failed"] ELSE answer
        /\ Stops(backend, call, Undone(e, S), o.left)
    BY <1>3 DEF FailStatement, Fails
  <2>2. /\ Undone(e, S) \in Knowledge
        /\ Matches(Undone(e, S), before.cols, cur, chain, Luck', Says, marked, db')
    <3>1. CASE S.undo = ""
      BY <2>1, <3>1 DEF Undone
    <3>2. CASE S.undo # ""
      <4>1. S.undo \in Given
        BY <3>2, HeadTyped DEF Statement, Parts, Given
      <4>2. At(S.undo) \in Tables
        BY <4>1, AtTable DEF IInv, TypeOK
      <4>3. Undone(e, S) = Put(e, At(S.undo), {NoTable})
        BY <3>2 DEF Undone, Meant, At, Matches
      <4>4. {NoTable} \in SUBSET Contents
        BY PlainTyped
      <4>5. db \in [Tables -> Contents]
        BY DEF IInv, TypeOK
      <4>6. /\ Put(e, At(S.undo), {NoTable}) \in Knowledge
            /\ Matches(Put(e, At(S.undo), {NoTable}), before.cols, cur, chain, Luck', Says,
                       marked, [db EXCEPT ![At(S.undo)] = NoTable])
        BY <4>2, <4>4, <4>5, PutKnown, PutMatches
      <4> QED
        BY <2>1, <3>2, <4>3, <4>6
    <3> QED
      BY <3>1, <3>2
  <2>3. chain = "none" => answer'.how \notin {"table", "mutates"}
    BY <2>1 DEF IInv, TypeOK
  <2> QED
    BY <1>1, <2>0, <2>1, <2>2, <2>3, StopsPlaced
<1> QED
  BY <1>2, <1>3
-----------------------------------------------------------------------------
(* Faults, refusals and crashes. *)

\* A fault: the note of the call it hurts.
LEMMA HurtMatches ==
  ASSUME NEW a \in Knowledge, NEW was, NEW cr, NEW ch, NEW luck, NEW says, NEW mark, NEW d,
         Matches(a, was, cr, ch, luck, says, mark, d)
  PROVE  Hurt(a) \in Knowledge /\ Matches(Hurt(a), was, cr, ch, "hurt", says, mark, d)
<1>1. /\ \A x \in {"was", "cur", "chain", "says", "marked", "held"} : Hurt(a)[x] = a[x]
      /\ Hurt(a).luck = "hurt"
  BY DEF Hurt, Knowledge
<1> QED
  BY <1>1 DEF Matches, Hurt, Knowledge

LEMMA LuckHurt ==
  ASSUME IInv, faults' = faults + 1, trouble' = trouble \cup {"fault"}
  PROVE  Luck' = "hurt"
<1>1. faults \in Nat
  BY BoundsNat DEF IInv, TypeOK
<1>2. faults' # 0
  BY <1>1
<1> QED
  BY <1>2 DEF Luck

\* Without a fault only a call known for it fails on the database.
LEMMA BreakPlaced ==
  ASSUME IInv, ~Idle, NEW o, NEW a, Position(o, a), Break
  PROVE  Placed' /\ (chain # "passed" => Excused(call, a))
<1>1. a \in Knowledge /\ Fits(a) /\ ~Able
  BY DEF Position, Break
<1>2. ~Sure(backend, a, S)
  BY <1>1, SureAble
<1>3. /\ a.chain # "passed" => Excused(call, a)
      /\ Fails(backend, call, S, a, o.at[2], o.left)
  BY <1>2, PositionNotes DEF Follows
<1>4. PICK why \in {"skipped", "broken"} : FailStatement(why)
  BY DEF Break
<1>5. faults' = faults /\ trouble' = trouble \cup {why}
  BY <1>4 DEF Break, FailStatement
<1>6. Luck' = Luck
  BY <1>5 DEF Luck
<1>7. Matches(a, before.cols, cur, chain, Luck', Says, marked, db) /\ a.chain = chain
  BY <1>1, <1>6 DEF Fits, Matches
<1> QED
  BY <1>1, <1>3, <1>4, <1>7, FailsPlaced

LEMMA FailSentPlaced ==
  ASSUME IInv, ~Idle, NEW o, NEW a, Position(o, a), FailSent
  PROVE  Placed'
<1>1. /\ a \in Knowledge /\ Fits(a) /\ S.do \in Sent /\ FailStatement("fault")
      /\ faults' = faults + 1 /\ trouble' = trouble \cup {"fault"}
  BY DEF Position, FailSent, FailStatement
<1>2. Fails(backend, call, S, Hurt(a), o.at[2], o.left)
  BY <1>1, PositionNotes DEF Follows
<1>3. PICK e : e = Hurt(a)
  OBVIOUS
<1>4. e \in Knowledge /\ Matches(e, before.cols, cur, chain, Luck', Says, marked, db)
  BY <1>1, <1>3, LuckHurt, HurtMatches DEF Fits
<1> QED
  BY <1>1, <1>2, <1>3, <1>4, FailsPlaced

LEMMA RefusePlaced ==
  ASSUME IInv, ~Idle, NEW o, NEW a, Position(o, a), RefuseCall
  PROVE  Placed'
<1>1. /\ a \in Knowledge /\ Fits(a) /\ S.do \in {"check", "refuse"} /\ Unwind
      /\ UNCHANGED <<backend, db, marked, call, before, cur, chain, faults>>
      /\ trouble' = trouble \cup {"refused"}
      /\ answer' = IF chain = "none" THEN [answer EXCEPT !.how = "refused"] ELSE answer
  BY DEF Position, RefuseCall, Doing
<1>2. Stops(backend, call, a, o.left)
  BY <1>1, PositionNotes DEF Follows
<1>3. Luck' = Luck
  BY <1>1 DEF Luck
<1>4. Matches(a, before.cols, cur, chain, Luck', Says, marked, db')
  BY <1>1, <1>3 DEF Fits
<1>5. chain = "none" => answer'.how \notin {"table", "mutates"}
  BY <1>1 DEF IInv, TypeOK
<1> QED
  BY <1>1, <1>2, <1>4, <1>5, StopsPlaced

\* What a crash leaves is known.
LEMMA CrashedMatches ==
  ASSUME NEW a \in Knowledge, Fits(a), IInv
  PROVE  /\ Crashed(a) \in Knowledge
         /\ Matches(Crashed(a), before.cols, cur, chain, "hurt", "", marked,
                    [t \in Tables |-> IF t \in Session THEN NoTable ELSE db[t]])
<1>1. /\ \A x \in {"was", "cur", "chain", "marked"} : Crashed(a)[x] = a[x]
      /\ Crashed(a).luck = "hurt" /\ Crashed(a).says = ""
      /\ Crashed(a).held = [x \in Tables |-> IF x \in Session THEN {NoTable} ELSE a.held[x]]
  BY DEF Crashed, Knowledge
<1>2. Crashed(a) \in Knowledge
  <2>1. [x \in Tables |-> IF x \in Session THEN {NoTable} ELSE a.held[x]]
          \in [Tables -> SUBSET Contents]
    BY PlainTyped DEF Knowledge
  <2> QED
    BY <2>1 DEF Crashed, Knowledge
<1> QED
  BY <1>1, <1>2 DEF Fits, Matches

LEMMA CrashPlaced ==
  ASSUME IInv, ~Idle, NEW o, NEW a, Position(o, a), Crash
  PROVE  Placed'
<1>1. /\ a \in Knowledge /\ Fits(a) /\ todo' = << >>
      /\ db' = [t \in Tables |-> IF t \in Session THEN NoTable ELSE db[t]]
      /\ UNCHANGED <<backend, marked, call, before, cur, chain>>
      /\ faults' = faults + 1 /\ trouble' = trouble \cup {"fault"}
      /\ answer' = [answer EXCEPT !.how = "crashed"]
  BY DEF Position, Crash
<1>2. Ended(backend, call, Crashed(a))
  BY PositionNotes DEF Follows
<1>3. PICK e : e = Crashed(a)
  OBVIOUS
<1>4. Says' = ""
  BY <1>1 DEF Says, IInv, TypeOK
<1>5. e \in Knowledge /\ Fits(e)'
  BY <1>1, <1>3, <1>4, CrashedMatches, LuckHurt DEF Fits
<1> QED
  BY <1>1, <1>2, <1>3, <1>5, EndsPlaced

LEMMA ReadFailsPlaced ==
  ASSUME IInv, ~Idle, NEW o, NEW a, Position(o, a), ReadFails
  PROVE  Placed'
<1>1. /\ a \in Knowledge /\ Fits(a) /\ todo' = Tail(todo) /\ S.do = "unread"
      /\ UNCHANGED <<backend, db, marked, call, before, cur, chain, answer>>
      /\ faults' = faults + 1 /\ trouble' = trouble \cup {"fault"}
  BY DEF Position, ReadFails, Doing
<1>2. PICK e : e = Hurt(a)
  OBVIOUS
<1>3. After(a, S) = e
  BY <1>1, <1>2 DEF After, Hurt
<1>4. Among(e, o.at[2])
  BY <1>1, <1>3, PositionNotes DEF Follows
<1>5. Fits(e)'
  BY <1>1, <1>2, LuckHurt, HurtMatches DEF Fits, Says
<1> QED
  BY <1>1, <1>4, <1>5, GoesOn
-----------------------------------------------------------------------------
(* Orchestration and answers, in an outline. *)

\* The answer that is given, in a note.
LEMMA AfterValue ==
  ASSUME NEW a, NEW s, s.do = "value"
  PROVE  After(a, s) = [a EXCEPT !.says = ""]
BY DEF After

\* A program put in front of what is left: their outlines, one behind the other.
LEMMA RunPlaced ==
  ASSUME IInv, ~Idle, call \in Calls \cap DOMAIN Programs[backend],
         NEW o, NEW a, Position(o, a), RunProgram
  PROVE  Placed'
<1>1. /\ S.do = "run" /\ Fits(a) /\ a \in Knowledge /\ Complete(backend, call, todo, o)
      /\ UNCHANGED <<backend, db, marked, call, before, cur, chain, trouble, answer, faults>>
  BY DEF Position, RunProgram, Doing
<1>2. PICK p \in Programs[backend][S.t] : todo' = p \o Tail(todo)
  BY DEF RunProgram
<1>3. PICK r : r = Outline(backend, call)[S.t][p]
  OBVIOUS
<1>4. S.t \in DOMAIN Outline(backend, call) /\ Runs(p, r, a, o.at[2], o.left)
  BY <1>1, <1>3, PositionNotes DEF Follows
<1>5. backend \in Backends
  BY DEF IInv, TypeOK
<1>6. Sound(backend, call, p, r)
  BY <1>3, <1>4, <1>5, ProgramsOutlined DEF Outlined
<1>7. p \in Seq(Named(backend)) /\ todo \in Seq(Named(backend))
  BY <1>1, <1>5, HeadTyped, ProgramsTyped DEF IInv
<1>8. /\ Within(r.at[Len(p) + 1], o.at[2]) /\ Within(r.left, o.left)
      /\ \A i \in DOMAIN p : p[i].do \notin Resuming
      /\ Among(a, r.at[1])
  BY <1>4 DEF Runs
<1>9. PICK q : Complete(backend, call, p \o Tail(todo), q) /\ Within(r.at[1], q.at[1])
  BY <1>1, <1>6, <1>7, <1>8, SpliceComplete DEF Idle
<1>10. Among(a, q.at[1])
  BY <1>8, <1>9, AmongWithin
<1>11. PICK f \in q.at[1] : Fits(f)'
  <2>1. Fits(a)'
    BY <1>1 DEF Fits, Luck, Says
  <2> QED
    BY <1>10, <2>1, MatchesAmong DEF Fits
<1>12. f \in Knowledge
  <2>1. Len(p \o Tail(todo)) \in Nat
    BY <1>7, TailNamed, ConcatProperties, LenProperties DEF Idle
  <2>2. q.at \in [1..(Len(p \o Tail(todo)) + 1) -> SUBSET Knowledge]
    BY <1>9 DEF Complete, Sound
  <2>3. 1 \in 1..(Len(p \o Tail(todo)) + 1)
    BY <2>1
  <2> QED
    BY <2>2, <2>3
<1> QED
  BY <1>1, <1>2, <1>9, <1>11, <1>12 DEF Placed, Position

\* A function is given no table of the one before.
LEMMA TidiedHeld ==
  ASSUME NEW h \in [Tables -> SUBSET Contents], NEW d, \A t \in Tables : d[t] \in h[t]
  PROVE  /\ Tidy(h) \in [Tables -> SUBSET Contents]
         /\ \A t \in Tables : Tidied(d)[t] \in Tidy(h)[t]
BY PlainTyped DEF Tidy, Tidied

LEMMA FunctionsPlaced ==
  ASSUME IInv, ~Idle, NEW o, NEW a, Position(o, a), StartFunction \/ PassOn
  PROVE  Placed'
<1>1. a \in Knowledge /\ Fits(a) /\ todo' = Tail(todo) /\ S.do \in {"func", "pass"}
      /\ UNCHANGED <<backend, marked, call, before, trouble, answer, faults>>
  BY DEF Position, StartFunction, PassOn, Doing
<1>2. Among(After(a, S), o.at[2])
  BY <1>1, PositionNotes DEF Follows
<1>3. /\ a.held \in [Tables -> SUBSET Contents] /\ \A t \in Tables : db[t] \in a.held[t]
      /\ a.chain = chain /\ a.cur = cur
  BY <1>1 DEF Knowledge, Fits, Matches
<1>4. PICK e : e = After(a, S)
  OBVIOUS
<1>5. \A x \in {"was", "luck", "says", "marked"} : e[x] = a[x]
  <2>1. CASE S.do = "func"
    <3>1. e = [a EXCEPT !.held = Tidy(@), !.chain = IF @ = "none" THEN "tried" ELSE @]
      BY <1>4, <2>1 DEF After
    <3> QED BY <1>1, <3>1 DEF Knowledge
  <2>2. CASE S.do = "pass"
    <3>1. e = [a EXCEPT !.held = Tidy([@ EXCEPT !["c"] = a.held[Meant(a, S.t)]]), !.cur = "c",
                        !.chain = IF @ = "none" THEN "none" ELSE "passed"]
      BY <1>4, <2>2 DEF After
    <3> QED BY <1>1, <3>1 DEF Knowledge
  <2> QED BY <1>1, <2>1, <2>2
<1>6. e.cur = cur' /\ e.chain = chain' /\ \A t \in Tables : db'[t] \in e.held[t]
  <2>1. CASE StartFunction
    <3>1. /\ S.do = "func" /\ db' = Tidied(db) /\ cur' = cur
          /\ chain' = IF chain = "none" THEN "tried" ELSE chain
      BY <2>1 DEF StartFunction, Doing
    <3>2. /\ e.held = Tidy(a.held) /\ e.cur = a.cur
          /\ e.chain = IF a.chain = "none" THEN "tried" ELSE a.chain
      <4>1. e = [a EXCEPT !.held = Tidy(@), !.chain = IF @ = "none" THEN "tried" ELSE @]
        BY <1>4, <3>1 DEF After
      <4> QED BY <1>1, <4>1 DEF Knowledge
    <3> QED
      BY <1>3, <3>1, <3>2, TidiedHeld
  <2>2. CASE PassOn
    <3>1. /\ S.do = "pass" /\ db' = Tidied([db EXCEPT !["c"] = db[T]]) /\ cur' = "c"
          /\ chain' = IF chain = "none" THEN "none" ELSE "passed"
      BY <2>2 DEF PassOn, Doing
    <3>2. T \in Tables /\ Meant(a, S.t) = T
      BY <1>1, <3>1, HeadTyped, MeantTables DEF Naming
    <3>3. PICK h : h = [a.held EXCEPT !["c"] = a.held[T]]
      OBVIOUS
    <3>4. e.held = Tidy(h) /\ e.cur = "c" /\ e.chain = IF a.chain = "none" THEN "none" ELSE "passed"
      <4>1. e = [a EXCEPT !.held = Tidy([@ EXCEPT !["c"] = a.held[T]]), !.cur = "c",
                          !.chain = IF @ = "none" THEN "none" ELSE "passed"]
        BY <1>4, <3>1, <3>2 DEF After
      <4>2. e = [a EXCEPT !.held = Tidy(h), !.cur = "c",
                          !.chain = IF @ = "none" THEN "none" ELSE "passed"]
        BY <3>3, <4>1
      <4> QED BY <1>1, <4>2 DEF Knowledge
    <3>5. PICK d : d = [db EXCEPT !["c"] = db[T]]
      OBVIOUS
    <3>6. db \in [Tables -> Contents]
      BY DEF IInv, TypeOK
    <3>7. h \in [Tables -> SUBSET Contents] /\ \A t \in Tables : d[t] \in h[t]
      BY <1>3, <3>2, <3>3, <3>5, <3>6
    <3>8. \A t \in Tables : Tidied(d)[t] \in Tidy(h)[t]
      BY <3>7, TidiedHeld
    <3> QED
      BY <1>3, <3>1, <3>4, <3>5, <3>8
  <2> QED
    BY <2>1, <2>2
<1>7. Fits(e)'
  BY <1>1, <1>5, <1>6 DEF Fits, Matches, Luck, Says
<1> QED
  BY <1>1, <1>2, <1>4, <1>7, GoesOn

LEMMA CollectPlaced ==
  ASSUME IInv, ~Idle, NEW o, NEW a, Position(o, a), CollectChain
  PROVE  Placed'
<1>1. /\ a \in Knowledge /\ Fits(a) /\ S.do = "collect" /\ chain' = "none"
      /\ UNCHANGED <<backend, db, marked, call, before, cur, trouble, faults>>
  BY DEF Position, CollectChain, Doing
<1>2. PICK e : e = After(a, S)
  OBVIOUS
<1>3. /\ \A x \in {"was", "cur", "luck", "says", "marked", "held"} : e[x] = a[x]
      /\ e.chain = "none" /\ e \in Knowledge /\ a.chain = chain
  <2>1. e = [a EXCEPT !.chain = "none"]
    BY <1>1, <1>2 DEF After
  <2>2. a.chain = chain
    BY <1>1 DEF Fits, Matches
  <2> QED BY <1>1, <2>1, <2>2 DEF Knowledge
<1>4. CASE chain = "passed"
  <2>1. todo' = Tail(todo) /\ answer' = answer
    BY <1>4 DEF CollectChain
  <2>2. Among(e, o.at[2])
    BY <1>1, <1>2, <1>3, <1>4, PositionNotes DEF Follows
  <2>3. Fits(e)'
    BY <1>1, <1>3, <2>1 DEF Fits, Matches, Luck, Says
  <2> QED
    BY <1>1, <2>1, <2>2, <2>3, GoesOn
<1>5. CASE chain # "passed"
  <2>1. todo' = << >> /\ answer' = [answer EXCEPT !.how = "refused"]
    BY <1>5 DEF CollectChain
  <2>2. Ended(backend, call, Unanswered(e))
    BY <1>1, <1>2, <1>3, <1>5, PositionNotes DEF Follows
  <2>3. PICK u : u = Unanswered(e)
    OBVIOUS
  <2>4. /\ \A x \in {"was", "cur", "chain", "luck", "marked", "held"} : u[x] = e[x]
        /\ u.says = "" /\ u \in Knowledge
    BY <1>3, <2>3 DEF Unanswered, Knowledge
  <2>5. Says' = ""
    BY <2>1 DEF Says, IInv, TypeOK
  <2>6. Fits(u)'
    BY <1>1, <1>3, <2>4, <2>5 DEF Fits, Matches, Luck
  <2> QED
    BY <1>1, <2>1, <2>2, <2>3, <2>4, <2>6, EndsPlaced
<1> QED
  BY <1>4, <1>5

\* A call that may not publish its columns is known for it.
LEMMA OwnedPlaced ==
  ASSUME IInv, ~Idle, NEW o, NEW a, Position(o, a), AssertOwned
  PROVE  Placed' /\ (trouble' # trouble => Excused(call, a))
<1>1. /\ a \in Knowledge /\ Fits(a) /\ S.do = "owned"
      /\ UNCHANGED <<backend, db, marked, call, before, cur, chain, faults>>
  BY DEF Position, AssertOwned, Doing
<1>2. CASE "new" \in db["src"].cols /\ ~marked
  <2>1. /\ todo' = << >> /\ answer' = [answer EXCEPT !.how = "refused"]
        /\ trouble' = trouble \cup {"disowned"}
    BY <1>2 DEF AssertOwned
  <2>2. FALSE \in a.marked /\ \E c \in a.held["src"] : "new" \in c.cols
    BY <1>1, <1>2 DEF Fits, Matches, Tables, IInv, TypeOK
  <2>3. Excused(call, a) /\ Ended(backend, call, Unanswered(a))
    BY <1>1, <2>2, PositionNotes DEF Follows
  <2>4. PICK u : u = Unanswered(a)
    OBVIOUS
  <2>5. /\ \A x \in {"was", "cur", "chain", "luck", "marked", "held"} : u[x] = a[x]
        /\ u.says = "" /\ u \in Knowledge
    BY <1>1, <2>4 DEF Unanswered, Knowledge
  <2>6. Says' = "" /\ Luck' = Luck
    BY <1>1, <2>1 DEF Says, Luck, IInv, TypeOK
  <2>7. Fits(u)'
    BY <1>1, <2>5, <2>6 DEF Fits, Matches
  <2> QED
    BY <1>1, <2>1, <2>3, <2>4, <2>5, <2>7, EndsPlaced
<1>3. CASE ~("new" \in db["src"].cols /\ ~marked)
  <2>1. todo' = Tail(todo) /\ UNCHANGED <<answer, trouble>>
    BY <1>3 DEF AssertOwned
  <2>2. After(a, S) = a
    BY <1>1 DEF After
  <2>3. Among(a, o.at[2])
    BY <1>1, <2>2, PositionNotes DEF Follows
  <2>4. Fits(a)'
    BY <1>1, <2>1 DEF Fits, Luck, Says
  <2> QED
    BY <1>1, <2>1, <2>3, <2>4, GoesOn
<1> QED
  BY <1>2, <1>3

LEMMA AnswerPlaced ==
  ASSUME IInv, ~Idle, NEW o, NEW a, Position(o, a), RecordMarker \/ Answer
  PROVE  Placed'
<1>1. /\ a \in Knowledge /\ Fits(a) /\ todo' = Tail(todo)
      /\ S.do \in {"marker", "value", "table", "mutates"}
      /\ UNCHANGED <<backend, db, call, before, cur, chain, trouble, faults>>
  BY DEF Position, RecordMarker, Answer, Doing
<1>2. PICK e : e = After(a, S)
  OBVIOUS
<1>3. Among(e, o.at[2])
  BY <1>1, <1>2, PositionNotes DEF Follows
<1>4. /\ \A x \in {"was", "cur", "chain", "luck", "held"} : e[x] = a[x]
      /\ e.marked = IF S.do = "marker" THEN {TRUE} ELSE a.marked
      /\ e.says = CASE S.do = "value" -> "" [] S.do = "table" -> T
                     [] S.do = "mutates" -> "src" [] OTHER -> a.says
  <2>0. Meant(a, S.t) = T
    BY <1>1, MeantTables
  <2>1. CASE S.do = "marker"
    <3>1. e = [a EXCEPT !.marked = {TRUE}]
      BY <1>2, <2>1 DEF After
    <3> QED BY <1>1, <2>1, <3>1 DEF Knowledge
  <2>2. CASE S.do = "value"
    <3>1. e = [a EXCEPT !.says = ""]
      BY <1>2, <2>2, AfterValue
    <3> QED BY <1>1, <2>2, <3>1 DEF Knowledge
  <2>3. CASE S.do = "table"
    <3>1. e = [a EXCEPT !.says = T]
      BY <1>2, <2>0, <2>3 DEF After
    <3> QED BY <1>1, <2>3, <3>1 DEF Knowledge
  <2>4. CASE S.do = "mutates"
    <3>1. e = [a EXCEPT !.says = "src"]
      BY <1>2, <2>4 DEF After
    <3> QED BY <1>1, <2>4, <3>1 DEF Knowledge
  <2> QED BY <1>1, <2>1, <2>2, <2>3, <2>4
<1>5. marked' \in e.marked /\ Says' = e.says
  <2>1. a.says = Says /\ marked \in a.marked
    BY <1>1 DEF Fits, Matches
  <2>2. CASE S.do = "marker"
    <3>1. marked' = TRUE /\ answer' = answer
      BY <2>2 DEF RecordMarker, Answer, Doing
    <3> QED
      BY <1>4, <2>1, <2>2, <3>1 DEF Says
  <2>3. CASE S.do = "value"
    <3>1. marked' = marked /\ answer' = [answer EXCEPT !.how = "value"]
      BY <2>3 DEF RecordMarker, Answer, Doing
    <3>2. answer'.how = "value"
      BY <3>1 DEF IInv, TypeOK
    <3>3. e.says = "" /\ e.marked = a.marked
      BY <1>4, <2>3
    <3> QED
      BY <2>1, <3>1, <3>2, <3>3 DEF Says
  <2>4. CASE S.do = "table"
    <3>1. marked' = marked /\ answer' = [how |-> "table", t |-> T]
      BY <2>4 DEF RecordMarker, Answer, Doing
    <3> QED
      BY <1>4, <2>1, <2>4, <3>1 DEF Says
  <2>5. CASE S.do = "mutates"
    <3>1. marked' = marked /\ answer' = [how |-> "mutates", t |-> "src"]
      BY <2>5 DEF RecordMarker, Answer, Doing
    <3> QED
      BY <1>4, <2>1, <2>5, <3>1 DEF Says
  <2> QED
    BY <1>1, <2>2, <2>3, <2>4, <2>5
<1>6. Fits(e)'
  BY <1>1, <1>4, <1>5 DEF Fits, Matches, Luck
<1> QED
  BY <1>1, <1>2, <1>3, <1>6, GoesOn
-----------------------------------------------------------------------------
(* Calls, in an outline. *)

\* Between calls the dataset is as any new call finds it.
Fresher ==
  /\ Idle /\ before = db["src"] /\ before \in {Source, NoTable}
  /\ faults = 0 /\ trouble = {}
  /\ \E was \in {{}, {"own"}} : was = before.cols /\ Fits(NewCall(was))

\* The invariant.
OInv ==
  /\ IInv
  /\ before # NoTable => "own" \in before.cols
  /\ faults = 0 => "fault" \notin trouble
  /\ IF call = "none" THEN Fresher
     ELSE call \in Calls \cap DOMAIN Programs[backend] /\ Placed
  /\ Repeatable

\* A call begins with what the outlines of its lists say it may.
LEMMA StartsPlaced ==
  ASSUME backend \in Backends, NEW n \in Calls \cap DOMAIN Programs[backend],
         UNCHANGED backend, call' = n, todo' \in Programs[backend][n],
         NEW a, Begins(backend, n, a), Fits(a)'
  PROVE  Placed'
<1>1. PICK p : p \in Programs[backend][n] /\ todo' = p
  OBVIOUS
<1>2. PICK o : o = Outline(backend, n)[n][p]
  OBVIOUS
<1>3. Complete(backend, n, p, o)
  BY <1>1, <1>2, ProgramsOutlined DEF Outlined, Complete
<1>4. Among(a, o.at[1])
  BY <1>1, <1>2 DEF Begins
<1>5. PICK f \in o.at[1] : Fits(f)'
  BY <1>4, MatchesAmong DEF Fits
<1>6. f \in Knowledge
  <2>1. p \in Seq(Named(backend))
    BY <1>1, ProgramsTyped
  <2>2. o.at \in [1..(Len(p) + 1) -> SUBSET Knowledge] /\ 1 \in 1..(Len(p) + 1)
    BY <1>3, <2>1, LenProperties DEF Complete, Sound
  <2> QED
    BY <2>2
<1> QED
  BY <1>1, <1>3, <1>5, <1>6 DEF Placed, Position

\* Where nothing is left to do the call may end.
LEMMA IdleEnded ==
  ASSUME IInv, Idle, NEW o, NEW a, Position(o, a)
  PROVE  a \in Knowledge /\ Fits(a) /\ Ended(backend, call, a)
<1>1. Len(todo) + 1 = 1
  BY EmptySeq DEF Idle
<1> QED
  BY <1>1 DEF Position, Complete

\* A source with its own columns, or none, and no tables of an earlier call.
LEMMA NewCallFits ==
  ASSUME NEW was \in {{}, {"own"}}, NEW d,
         d["src"] = IF was = {} THEN NoTable ELSE [rows |-> "all", cols |-> was],
         \A t \in Fresh \cup Session : d[t] = NoTable,
         d["tmp"] \in IF was = {} THEN Contents ELSE {NoTable, [rows |-> "other", cols |-> {"own"}]}
  PROVE  Matches(NewCall(was), was, "src", "none", "quiet", "", FALSE, d)
<1>1. /\ NewCall(was).was = was /\ NewCall(was).cur = "src" /\ NewCall(was).chain = "none"
      /\ NewCall(was).luck = "quiet" /\ NewCall(was).says = "" /\ NewCall(was).marked = {FALSE}
      /\ \A t \in Tables : NewCall(was).held[t] =
           IF t = "src" THEN {IF was = {} THEN NoTable ELSE [rows |-> "all", cols |-> was]}
           ELSE IF t \in Fresh \cup Session THEN {NoTable}
           ELSE IF was = {} THEN Contents ELSE {NoTable, [rows |-> "other", cols |-> {"own"}]}
  BY DEF NewCall, Entry
<1>2. \A t \in Tables : t \in Fresh \cup Session \/ t = "src" \/ t = "tmp"
  BY DEF Tables
<1> QED
  <2>1. ASSUME NEW t \in Tables PROVE d[t] \in NewCall(was).held[t]
    <3>1. CASE t = "src"
      BY <1>1, <3>1
    <3>2. CASE t \in Fresh \cup Session
      <4>1. t # "src"
        BY <3>2 DEF Fresh, Session
      <4> QED
        BY <1>1, <3>2, <4>1
    <3>3. CASE t = "tmp" /\ t \notin Fresh \cup Session
      BY <1>1, <3>3
    <3> QED
      BY <1>2, <3>1, <3>2, <3>3
  <2> QED
    BY <1>1, <2>1 DEF Matches

LEMMA InitPlaced == Init => OInv
<1> SUFFICES ASSUME Init PROVE OInv
  OBVIOUS
<1>1. IInv
  BY InitTyped
<1>2. /\ before = Source /\ call = "none" /\ faults = 0 /\ trouble = {} /\ Idle
      /\ cur = "src" /\ chain = "none" /\ marked = FALSE /\ answer.how = "none"
      /\ db = [t \in Tables |-> IF t = "src" THEN Source ELSE NoTable]
  BY DEF Init, Idle
<1>3. Source = [rows |-> "all", cols |-> {"own"}] /\ before = db["src"] /\ before.cols = {"own"}
  BY <1>2 DEF Source, Tables
<1>4. Luck = "quiet" /\ Says = ""
  BY <1>2 DEF Luck, Says
<1>5. \A t \in Tables \ {"src"} : db[t] = NoTable
  BY <1>2
<1>6. Matches(NewCall({"own"}), {"own"}, "src", "none", "quiet", "", FALSE, db)
  <2>1. \A t \in Fresh \cup Session \cup {"tmp"} : t \in Tables \ {"src"}
    BY DEF Tables, Fresh, Session
  <2> QED
    BY <1>2, <1>3, <1>5, <2>1, NewCallFits
<1>7. Fresher
  BY <1>2, <1>3, <1>4, <1>6 DEF Fresher, Fits
<1> QED
  BY <1>1, <1>2, <1>3, <1>7 DEF OInv, Repeatable

LEMMA BeginPlaced ==
  ASSUME OInv, NEW n \in Calls, Begin(n)
  PROVE  OInv'
<1>1. /\ IInv /\ IInv' /\ call = "none" /\ Fresher
      /\ UNCHANGED <<backend, db, marked, before, cur, chain, trouble, answer, repeats, faults>>
      /\ n \in Calls \cap DOMAIN Programs[backend] /\ call' = n
      /\ todo' \in Programs[backend][n]
  BY CallsTyped DEF OInv, Begin
<1>2. backend \in Backends /\ n # "none"
  BY <1>1, CallsNamed DEF IInv, TypeOK
<1>3. PICK was \in {{}, {"own"}} : was = before.cols /\ Fits(NewCall(was))
  BY <1>1 DEF Fresher
<1>a. PICK a : a = NewCall(was)
  OBVIOUS
<1>4. Begins(backend, n, a)
  BY <1>1, <1>2, <1>a, ProgramsOutlined DEF Outlined
<1>5. Fits(a)'
  BY <1>1, <1>3, <1>a DEF Fits, Luck, Says
<1>6. Placed'
  BY <1>1, <1>2, <1>4, <1>5, StartsPlaced
<1>7. Repeatable'
  BY <1>1 DEF Fresher, Repeatable
<1> QED
  BY <1>1, <1>2, <1>6, <1>7 DEF OInv

LEMMA LeavePlaced ==
  ASSUME OInv, Leave
  PROVE  OInv'
<1>1. /\ IInv /\ IInv' /\ Idle /\ Idle' /\ call' = "none" /\ faults' = 0 /\ trouble' = {}
      /\ before' = db'["src"] /\ marked' = FALSE /\ cur' = "src" /\ chain' = "none"
      /\ answer'.how = "none"
      /\ db' = [t \in Tables |->
                 IF t \in Fresh \cup Session \/ ~Exists(t) THEN NoTable
                 ELSE IF t = "src" THEN Source
                 ELSE IF Exists("src") THEN [rows |-> "other", cols |-> {"own"}] ELSE db[t]]
  BY CallsTyped DEF OInv, Leave, Idle
<1>2. Luck' = "quiet" /\ Says' = ""
  BY <1>1 DEF Luck, Says
<1>3. /\ "src" \in Tables \ (Fresh \cup Session) /\ "tmp" \in Tables \ (Fresh \cup Session \cup {"src"})
      /\ Fresh \cup Session \subseteq Tables
  BY DEF Tables, Fresh, Session
<1>4. /\ db'["src"] = IF Exists("src") THEN Source ELSE NoTable
      /\ \A t \in Fresh \cup Session : db'[t] = NoTable
      /\ db'["tmp"] = IF ~Exists("tmp") THEN NoTable
                      ELSE IF Exists("src") THEN [rows |-> "other", cols |-> {"own"}] ELSE db["tmp"]
  BY <1>1, <1>3
<1>5. db["tmp"] \in Contents /\ NoTable \in Contents
  BY <1>1, <1>3, PlainTyped DEF IInv, TypeOK
<1>6. PICK was : was = before'.cols
  OBVIOUS
<1>7. /\ was = IF Exists("src") THEN {"own"} ELSE {}
      /\ before' = IF Exists("src") THEN Source ELSE NoTable
      /\ Source.cols = {"own"} /\ Source = [rows |-> "all", cols |-> {"own"}]
  <2>1. before' = IF Exists("src") THEN Source ELSE NoTable
    BY <1>1, <1>4
  <2>2. Source.cols = {"own"} /\ NoTable.cols = {} /\ Source = [rows |-> "all", cols |-> {"own"}]
    BY DEF Source, NoTable
  <2> QED
    BY <1>6, <2>1, <2>2
<1>8. Matches(NewCall(was), was, "src", "none", "quiet", "", FALSE, db')
  <2>1. /\ was \in {{}, {"own"}} /\ (was = {} <=> ~Exists("src"))
        /\ db'["src"] = IF was = {} THEN NoTable ELSE [rows |-> "all", cols |-> was]
    BY <1>4, <1>7
  <2>2. db'["tmp"] \in IF was = {} THEN Contents ELSE {NoTable, [rows |-> "other", cols |-> {"own"}]}
    BY <1>4, <1>5, <2>1
  <2> QED
    BY <1>4, <2>1, <2>2, NewCallFits
<1>9. Fits(NewCall(was))' /\ was \in {{}, {"own"}}
  <2>1. was \in {{}, {"own"}}
    BY <1>7
  <2>2. PICK a : a = NewCall(was)
    OBVIOUS
  <2>3. Matches(a, before'.cols, cur', chain', Luck', Says', marked', db')
    BY <1>1, <1>2, <1>6, <1>8, <2>2
  <2>4. Fits(a)'
    BY <2>3 DEF Fits
  <2> QED
    BY <2>1, <2>2, <2>4
<1>10. Fresher'
  BY <1>1, <1>6, <1>7, <1>9 DEF Fresher
<1>11. before' # NoTable => "own" \in before'.cols
  BY <1>6, <1>7
<1> QED
  BY <1>1, <1>10, <1>11 DEF OInv, Repeatable

LEMMA ContentsReplaced ==
  ASSUME NEW c \in Contents, NEW r, NEW k
  PROVE  [c EXCEPT !.rows = r, !.cols = k] = [rows |-> r, cols |-> k]
<1>1. [c EXCEPT !.rows = r, !.cols = k] = [[c EXCEPT !.rows = r] EXCEPT !.cols = k]
  OBVIOUS
<1>2. [c EXCEPT !.rows = r] = [rows |-> r, cols |-> c.cols]
  BY DEF Contents
<1>3. \A y : [[rows |-> r, cols |-> y] EXCEPT !.cols = k] = [rows |-> r, cols |-> k]
  OBVIOUS
<1> QED
  BY <1>1, <1>2, <1>3

\* A repeated call finds what its note says it will.
LEMMA AgainFits ==
  ASSUME IInv, Repeat, NEW a \in Knowledge, Fits(a), NEW e, e = Again(a, db["src"])
  PROVE  Fits(e)'
<1>1. /\ faults' = faults /\ trouble' = {} /\ marked' = marked
      /\ before' = db'["src"] /\ cur' = "src" /\ chain' = "none" /\ answer'.how = "none"
      /\ db' = [t \in Tables |->
                 IF t \in Fresh \/ ~Exists(t) THEN NoTable
                 ELSE IF t = "src" THEN [db[t] EXCEPT !.rows = "all", !.cols = @ \cup {"own"}]
                 ELSE IF Exists("src") THEN [db[t] EXCEPT !.rows = "other"] ELSE db[t]]
  BY DEF Repeat
<1>2. "src" \in Tables \ Fresh
  BY DEF Tables, Fresh
<1>3. \A t \in Tables : db[t] \in Contents /\ db[t] \in a.held[t]
  BY DEF IInv, TypeOK, Fits, Matches
<1>4. PICK c : c = db["src"]
  OBVIOUS
<1>5. PICK was : was = IF c = NoTable THEN {} ELSE c.cols \cup {"own"}
  OBVIOUS
<1>6. PICK held : held = IF c = NoTable THEN a.held ELSE [x \in Tables |-> Older(a.held[x])]
  OBVIOUS
<1>a. PICK luck : luck = IF a.luck = "quiet" THEN "quiet" ELSE "sound"
  OBVIOUS
<1>7. e = Entry(was, luck, a.marked, held)
  BY <1>4, <1>5, <1>6, <1>a DEF Again
<1>8. /\ e.was = was /\ e.cur = "src" /\ e.chain = "none" /\ e.says = "" /\ e.marked = a.marked
      /\ e.luck = luck
      /\ \A x \in Tables :
           e.held[x] = IF x = "src" THEN {IF was = {} THEN NoTable ELSE [rows |-> "all", cols |-> was]}
                       ELSE IF x \in Fresh THEN {NoTable} ELSE held[x]
  <2>1. PICK h : h = [x \in Tables |->
                       IF x = "src" THEN {IF was = {} THEN NoTable ELSE [rows |-> "all", cols |-> was]}
                       ELSE IF x \in Fresh THEN {NoTable} ELSE held[x]]
    OBVIOUS
  <2>2. e = [was |-> was, cur |-> "src", chain |-> "none", luck |-> luck, says |-> "",
             marked |-> a.marked, held |-> h]
    BY <1>7, <2>1 DEF Entry
  <2>3. /\ e.was = was /\ e.cur = "src" /\ e.chain = "none" /\ e.says = "" /\ e.marked = a.marked
        /\ e.luck = luck /\ e.held = h
    <3>1. e.was = was /\ e.cur = "src" /\ e.chain = "none"
      BY ONLY <2>2
    <3>2. e.marked = a.marked /\ e.luck = luck /\ e.held = h
      BY ONLY <2>2
    <3>3. e.says = ""
      BY ONLY <2>2
    <3> QED
      BY <3>1, <3>2, <3>3
  <2>4. \A x \in Tables :
          h[x] = IF x = "src" THEN {IF was = {} THEN NoTable ELSE [rows |-> "all", cols |-> was]}
                 ELSE IF x \in Fresh THEN {NoTable} ELSE held[x]
    BY <2>1
  <2> QED
    BY <2>3, <2>4
<1>9. /\ Luck' = e.luck /\ Says' = e.says /\ marked' \in e.marked
      /\ cur' = e.cur /\ chain' = e.chain
  <2>1. a.luck = Luck /\ marked \in a.marked
    BY DEF Fits, Matches
  <2>2. Luck = "quiet" <=> faults = 0
    BY DEF Luck
  <2>3. Luck' = IF faults = 0 THEN "quiet" ELSE "sound"
    BY <1>1 DEF Luck
  <2>4. Says' = ""
    BY <1>1 DEF Says
  <2> QED
    BY <1>1, <1>8, <1>a, <2>1, <2>2, <2>3, <2>4
<1>10. db'["src"] = (IF was = {} THEN NoTable ELSE [rows |-> "all", cols |-> was]) /\ before'.cols = was
  <2>1. db'["src"] = IF c = NoTable THEN NoTable
                     ELSE [c EXCEPT !.rows = "all", !.cols = @ \cup {"own"}]
    BY <1>1, <1>2, <1>4 DEF Exists
  <2>2. c \in Contents
    BY <1>2, <1>3, <1>4
  <2>3. [c EXCEPT !.rows = "all", !.cols = @ \cup {"own"}] = [rows |-> "all", cols |-> c.cols \cup {"own"}]
    BY <2>2, ContentsReplaced
  <2>4. c.cols \cup {"own"} # {} /\ NoTable.cols = {}
    BY DEF NoTable
  <2> QED
    BY <1>1, <1>5, <2>1, <2>3, <2>4
<1>11. ASSUME NEW t \in Tables PROVE db'[t] \in e.held[t]
  <2>1. CASE t = "src"
    BY <1>8, <1>10, <2>1
  <2>2. CASE t \in Fresh
    <3>1. t # "src"
      BY <1>2, <2>2
    <3> QED
      BY <1>1, <1>8, <2>2, <3>1
  <2>3. CASE t # "src" /\ t \notin Fresh
    <3>1. e.held[t] = held[t]
      BY <1>8, <2>3
    <3>2. db'[t] = IF db[t] = NoTable THEN NoTable
                   ELSE IF c # NoTable THEN [db[t] EXCEPT !.rows = "other"] ELSE db[t]
      BY <1>1, <1>4, <2>3 DEF Exists
    <3>3. CASE c = NoTable
      BY <1>3, <1>6, <3>1, <3>2, <3>3
    <3>4. CASE c # NoTable
      <4>1. held[t] = Older(a.held[t])
        BY <1>6, <3>4
      <4>2. [db[t] EXCEPT !.rows = "other"] = [rows |-> "other", cols |-> db[t].cols]
        BY <1>3 DEF Contents
      <4>3. (IF db[t] = NoTable THEN db[t] ELSE [rows |-> "other", cols |-> db[t].cols])
              \in Older(a.held[t])
        BY <1>3 DEF Older
      <4> QED
        BY <3>1, <3>2, <3>4, <4>1, <4>2, <4>3
    <3> QED
      BY <3>3, <3>4
  <2> QED
    BY <2>1, <2>2, <2>3
<1> QED
  BY <1>8, <1>9, <1>10, <1>11 DEF Fits, Matches

LEMMA RepeatPlaced ==
  ASSUME OInv, Repeat
  PROVE  OInv'
<1>1. /\ IInv /\ IInv' /\ Idle /\ call \in DOMAIN Programs[backend] /\ backend \in Backends
      /\ UNCHANGED <<backend, call, faults>> /\ trouble' = {}
      /\ todo' \in Programs[backend][call]
  BY CallsTyped DEF OInv, Repeat, IInv, TypeOK
<1>2. call # "none"
  BY <1>1, CallsNamed
<1>3. call \in Calls \cap DOMAIN Programs[backend] /\ Placed
  BY <1>2 DEF OInv
<1>4. PICK a : a \in Knowledge /\ Fits(a) /\ Ended(backend, call, a)
  BY <1>1, <1>3, IdleEnded DEF Placed
<1>5. PICK e : e = Again(a, db["src"])
  OBVIOUS
<1>6. Begins(backend, call, e)
  <2>1. db["src"] \in a.held["src"]
    BY <1>4 DEF Fits, Matches, Tables
  <2> QED
    BY <1>4, <1>5, <2>1 DEF Ended
<1>7. Fits(e)'
  BY <1>1, <1>4, <1>5, AgainFits
<1>8. Placed'
  BY <1>1, <1>3, <1>6, <1>7, StartsPlaced
<1>9. before' # NoTable => "own" \in before'.cols
  <2>1. before' = db'["src"] /\ "src" \in Tables \ Fresh /\ db["src"] \in Contents
    BY <1>1 DEF Repeat, Tables, Fresh, IInv, TypeOK
  <2>2. before' = IF Exists("src") THEN [db["src"] EXCEPT !.rows = "all", !.cols = @ \cup {"own"}]
                  ELSE NoTable
    BY <2>1 DEF Repeat
  <2> QED
    BY <2>1, <2>2 DEF Contents
<1> QED
  BY <1>1, <1>2, <1>3, <1>8, <1>9 DEF OInv, Repeatable

\* What is promised of an end is promised when the markers are gone, too.
LEMMA ClearedEnded ==
  ASSUME NEW b, NEW n, NEW a \in Knowledge, Ended(b, n, a)
  PROVE  Cleared(a) \in Knowledge /\ Ended(b, n, Cleared(a))
<1>1. PICK e : e = Cleared(a)
  OBVIOUS
<1>2. /\ e \in Knowledge /\ e.was = a.was /\ e.says = a.says /\ e.held = a.held
      /\ e.luck = "hurt" <=> a.luck = "hurt"
      /\ Cleared(e) = e
  BY <1>1 DEF Cleared, Knowledge
<1>3. /\ Copied(e) = Copied(a) /\ Whole(e) = Whole(a) /\ Told(e) = Told(a)
  BY <1>2 DEF Copied, Whole, Told, Entire
<1>4. \A c \in e.held["src"] : Begins(b, n, Again(e, c)) /\ Begins(b, n, Again(Cleared(e), c))
  BY <1>1, <1>2 DEF Ended
<1>5. Ended(b, n, e)
  BY <1>2, <1>3, <1>4 DEF Ended
<1> QED
  BY <1>1, <1>2, <1>5

LEMMA ClearPlaced ==
  ASSUME OInv, ClearMarkers
  PROVE  OInv'
<1>1. /\ IInv /\ IInv' /\ Idle /\ marked = TRUE /\ marked' = FALSE /\ faults' = faults + 1
      /\ UNCHANGED <<backend, db, call, before, todo, cur, chain, trouble, answer>>
      /\ faults \in Nat
  <2>1. IInv /\ IInv'
    BY CallsTyped DEF OInv
  <2>2. faults \in Nat /\ marked \in BOOLEAN
    BY <2>1, BoundsNat DEF IInv, TypeOK
  <2> QED
    BY <2>1, <2>2 DEF ClearMarkers, Idle
<1>2. call # "none"
  <2>1. Fresher => \E was : Fits(NewCall(was))
    BY DEF Fresher
  <2>2. \A was : NewCall(was).marked = {FALSE}
    BY DEF NewCall, Entry
  <2>3. ~Fresher
    BY <1>1, <2>1, <2>2 DEF Fits, Matches
  <2> QED
    BY <2>3 DEF OInv
<1>3. call \in Calls \cap DOMAIN Programs[backend] /\ Placed
  BY <1>2 DEF OInv
<1>4. PICK a : a \in Knowledge /\ Fits(a) /\ Ended(backend, call, a)
  BY <1>1, <1>3, IdleEnded DEF Placed
<1>5. PICK e : e = Cleared(a)
  OBVIOUS
<1>6. e \in Knowledge /\ Ended(backend, call, e)
  BY <1>4, <1>5, ClearedEnded
<1>7. Fits(e)'
  <2>1. /\ \A x \in {"was", "cur", "chain", "says", "held"} : e[x] = a[x]
        /\ e.marked = {FALSE} /\ e.luck = IF a.luck = "quiet" THEN "sound" ELSE a.luck
    BY <1>4, <1>5 DEF Cleared, Knowledge
  <2>2. Luck' = IF Luck = "quiet" THEN "sound" ELSE Luck
    <3>1. faults' # 0 /\ (faults = 0 => "fault" \notin trouble)
      BY <1>1 DEF OInv
    <3> QED
      BY <1>1, <3>1 DEF Luck
  <2>3. Says' = Says
    BY <1>1 DEF Says
  <2> QED
    BY <1>1, <1>4, <2>1, <2>2, <2>3 DEF Fits, Matches
<1>8. Placed'
  BY <1>1, <1>6, <1>7, EndsPlaced DEF Idle
<1>9. faults' # 0
  BY <1>1
<1> QED
  BY <1>1, <1>2, <1>3, <1>8, <1>9 DEF OInv, Repeatable

\* Every step of a running call.
LEMMA StepPlaced ==
  ASSUME OInv, Step
  PROVE  OInv'
<1>1. IInv /\ IInv' /\ ~Idle
  <2>1. IInv
    BY DEF OInv
  <2>2. [Next]_vars
    BY DEF Next
  <2>3. ~Idle
    BY DEF Step, ReadTable, AddColumns, DropColumnsOf, FillColumns, DropTable, RenameTable,
           RenameTableIn, ExchangeTables, InsertRows, MakeTable, PassCheck, TakeBranch,
           ReadFails, RunProgram, StartFunction, PassOn, CollectChain, AssertOwned,
           RecordMarker, Answer, Break, FailSent, RefuseCall, Crash, Doing
  <2> QED
    BY <2>1, <2>2, <2>3, NextTyped
<1>2. call \in Calls \cap DOMAIN Programs[backend] /\ Placed /\ call # "none"
  BY <1>1 DEF OInv, Fresher
<1>3. PICK o : \E a \in o.at[1] : Position(o, a)
  BY <1>2 DEF Placed
<1>4. PICK a : Position(o, a)
  BY <1>3
<1>5. Excused(call, a) /\ faults = 0 /\ before # NoTable => call \in Once
  <2>1. a.luck = Luck /\ a.was = before.cols
    BY <1>4 DEF Position, Fits, Matches
  <2>2. before # NoTable => before.cols # {}
    BY DEF OInv
  <2> QED
    BY <2>1, <2>2 DEF Excused, Luck
<1>6. UNCHANGED <<backend, call, before>>
  BY DEF Step, ReadTable, AddColumns, DropColumnsOf, FillColumns, DropTable, RenameTable,
         RenameTableIn, ExchangeTables, InsertRows, MakeTable, PassCheck, TakeBranch,
         ReadFails, RunProgram, StartFunction, PassOn, CollectChain, AssertOwned,
         RecordMarker, Answer, Break, FailSent, RefuseCall, Crash, FailStatement, Effect
<1>7. ASSUME trouble' = trouble, faults' = faults, Placed'
      PROVE  OInv'
  BY <1>1, <1>2, <1>6, <1>7 DEF OInv, Repeatable
<1>8. ASSUME faults' = faults + 1, trouble' = trouble \cup {"fault"}, Placed'
      PROVE  OInv'
  <2>1. faults' # 0
    BY <1>1, <1>8, BoundsNat DEF IInv, TypeOK
  <2> QED
    BY <1>1, <1>2, <1>6, <1>8, <2>1 DEF OInv, Repeatable
<1>9. CASE \/ ReadTable \/ AddColumns \/ DropColumnsOf \/ FillColumns \/ DropTable
           \/ RenameTable \/ RenameTableIn \/ ExchangeTables \/ InsertRows \/ MakeTable
           \/ PassCheck \/ TakeBranch
  <2>1. trouble' = trouble /\ faults' = faults
    BY <1>9 DEF ReadTable, AddColumns, DropColumnsOf, FillColumns, DropTable, RenameTable,
         RenameTableIn, ExchangeTables, InsertRows, MakeTable, PassCheck, TakeBranch, Effect
  <2>2. Placed'
    BY <1>1, <1>4, <1>9, StatementsPlaced
  <2> QED
    BY <2>1, <2>2, <1>7
<1>10. CASE RunProgram
  <2>1. Placed'
    BY <1>1, <1>2, <1>4, <1>10, RunPlaced
  <2> QED
    BY <1>7, <1>10, <2>1 DEF RunProgram
<1>11. CASE StartFunction \/ PassOn
  <2>1. Placed'
    BY <1>1, <1>4, <1>11, FunctionsPlaced
  <2> QED
    BY <1>7, <1>11, <2>1 DEF StartFunction, PassOn
<1>12. CASE CollectChain
  <2>1. Placed'
    BY <1>1, <1>4, <1>12, CollectPlaced
  <2> QED
    BY <1>7, <1>12, <2>1 DEF CollectChain
<1>13. CASE RecordMarker \/ Answer
  <2>1. Placed'
    BY <1>1, <1>4, <1>13, AnswerPlaced
  <2> QED
    BY <1>7, <1>13, <2>1 DEF RecordMarker, Answer
<1>14. CASE FailSent
  <2>1. Placed'
    BY <1>1, <1>4, <1>14, FailSentPlaced
  <2> QED
    BY <1>8, <1>14, <2>1 DEF FailSent, FailStatement
<1>15. CASE Crash
  <2>1. Placed'
    BY <1>1, <1>4, <1>15, CrashPlaced
  <2> QED
    BY <1>8, <1>15, <2>1 DEF Crash
<1>16. CASE ReadFails
  <2>1. Placed'
    BY <1>1, <1>4, <1>16, ReadFailsPlaced
  <2> QED
    BY <1>8, <1>16, <2>1 DEF ReadFails
<1>17. CASE RefuseCall
  <2>1. Placed' /\ trouble' = trouble \cup {"refused"} /\ faults' = faults
    BY <1>1, <1>4, <1>17, RefusePlaced DEF RefuseCall
  <2>2. Repeatable'
    BY <1>6, <2>1 DEF OInv, Repeatable
  <2> QED
    BY <1>1, <1>2, <1>6, <2>1, <2>2 DEF OInv
<1>18. CASE Break
  <2>1. /\ Placed' /\ (chain # "passed" => Excused(call, a)) /\ faults' = faults
        /\ trouble' = trouble \cup {IF chain = "passed" THEN "skipped" ELSE "broken"}
    BY <1>1, <1>4, <1>18, BreakPlaced DEF Break, FailStatement
  <2>2. Repeatable'
    BY <1>5, <1>6, <2>1 DEF OInv, Repeatable
  <2> QED
    BY <1>1, <1>2, <1>6, <2>1, <2>2 DEF OInv
<1>19. CASE AssertOwned
  <2>1. /\ Placed' /\ (trouble' # trouble => Excused(call, a)) /\ faults' = faults
        /\ trouble' \in {trouble, trouble \cup {"disowned"}}
    BY <1>1, <1>4, <1>19, OwnedPlaced DEF AssertOwned
  <2>2. Repeatable'
    BY <1>5, <1>6, <2>1 DEF OInv, Repeatable
  <2> QED
    BY <1>1, <1>2, <1>6, <2>1, <2>2 DEF OInv
<1> QED
  BY <1>9, <1>10, <1>11, <1>12, <1>13, <1>14, <1>15, <1>16, <1>17, <1>18, <1>19 DEF Step

LEMMA NextPlaced == OInv /\ [Next]_vars => OInv'
<1> SUFFICES ASSUME OInv, [Next]_vars PROVE OInv'
  OBVIOUS
<1>1. CASE UNCHANGED vars
  <2>1. IInv'
    BY NextTyped DEF OInv
  <2>2. Placed => Placed'
    BY <1>1 DEF Placed, Position, Fits, Luck, Says, vars
  <2>3. Fresher => Fresher'
    <3>1. ASSUME NEW was, Fits(NewCall(was)) PROVE Fits(NewCall(was))'
      BY <1>1, <3>1 DEF Fits, Luck, Says, vars
    <3> QED
      BY <1>1, <3>1 DEF Fresher, Idle, vars
  <2> QED
    BY <1>1, <2>1, <2>2, <2>3 DEF OInv, Repeatable, vars
<1>2. ASSUME NEW n \in Calls, Begin(n) PROVE OInv'
  BY <1>2, BeginPlaced
<1> QED
  BY <1>1, <1>2, RepeatPlaced, LeavePlaced, ClearPlaced, StepPlaced DEF Next

\* Between calls the dataset is as any new call finds it; during a call what is left
\* to do has a sound outline, whose first notes have one that fits the state.
THEOREM RebuildInvariant == Spec => []OInv
BY InitPlaced, NextPlaced, PTL DEF Spec

\* Where the process may stop, too, one whole copy is left.
LEMMA CopyFollows ==
  ASSUME OInv
  PROVE  CopyKept
<1> SUFFICES ASSUME call \notin Edits \cup Spoils, before # NoTable
             PROVE  \E t \in Tables : db[t].rows = "all" /\ "own" \in db[t].cols
  BY DEF CopyKept
<1>1. CASE call = "none"
  <2>1. db["src"] = Source /\ "src" \in Tables
    BY <1>1 DEF OInv, Fresher, Tables
  <2> QED
    BY <2>1 DEF Source
<1>2. CASE call # "none"
  <2>1. PICK o : \E a \in o.at[1] : Position(o, a)
    BY <1>2 DEF OInv, Placed
  <2>2. PICK a : Position(o, a)
    BY <2>1
  <2>3. a \in Knowledge /\ Fits(a) /\ IInv /\ Honest(call) /\ a.was # {}
    BY <2>2 DEF Position, OInv, Fits, Matches, Honest
  <2>4. \A t \in Tables : db[t] \in a.held[t]
    BY <2>3 DEF Fits, Matches
  <2>5. CASE Idle
    <3>1. Copied(a)
      BY <2>2, <2>3, <2>5, IdleEnded DEF Ended
    <3> QED
      BY <2>4, <3>1 DEF Copied, Full
  <2>6. CASE ~Idle
    <3>1. Ended(backend, call, Crashed(a))
      BY <2>2, <2>3, <2>6, PositionNotes DEF Follows
    <3>2. Crashed(a).was = a.was
      BY <2>3 DEF Crashed, Knowledge
    <3>3. PICK t \in Tables : \A c \in Crashed(a).held[t] : Full(c)
      BY <2>3, <3>1, <3>2 DEF Ended, Copied
    <3>4. Crashed(a).held[t] = IF t \in Session THEN {NoTable} ELSE a.held[t]
      BY <2>3 DEF Crashed, Knowledge
    <3>5. ~Full(NoTable)
      BY DEF Full, NoTable
    <3>6. Full(db[t])
      BY <2>4, <3>3, <3>4, <3>5
    <3> QED
      BY <3>6 DEF Full
  <2> QED
    BY <2>5, <2>6
<1> QED
  BY <1>1, <1>2

LEMMA WholeFollows ==
  ASSUME OInv
  PROVE  SourceWhole
<1> SUFFICES ASSUME Idle, "fault" \notin trouble, before # NoTable, call \notin Edits \cup Spoils
             PROVE  /\ db["src"].rows = "all"
                    /\ before.cols \ Helpers \subseteq db["src"].cols
                    /\ db["src"].cols \subseteq before.cols \cup {"own", "new"}
  BY DEF SourceWhole
<1>1. CASE call = "none"
  <2>1. before = Source /\ db["src"] = Source
    BY <1>1 DEF OInv, Fresher
  <2> QED
    BY <2>1 DEF Source
<1>2. CASE call # "none"
  <2>1. PICK a : a \in Knowledge /\ Fits(a) /\ Ended(backend, call, a)
    BY <1>2, IdleEnded DEF OInv, Placed
  <2>2. a.was = before.cols /\ a.was # {} /\ a.luck = Luck /\ db["src"] \in a.held["src"]
    BY <2>1 DEF Fits, Matches, OInv, Tables
  <2>3. Whole(a)
    BY <2>1, <2>2 DEF Ended, Honest, Luck
  <2>4. Helpers = {"work", "rowid"}
    BY DEF Helpers, Work, RowId
  <2> QED
    BY <2>2, <2>3, <2>4 DEF Whole, Entire
<1> QED
  BY <1>1, <1>2

LEMMA AnswerFollows ==
  ASSUME OInv
  PROVE  AnswerHolds
<1> SUFFICES ASSUME answer.how \in {"table", "mutates"}, Idle, call \notin Edits \cup Spoils
             PROVE  /\ Exists(answer.t)
                    /\ answer.t = "src" => /\ db["src"].rows = "all"
                                           /\ before.cols \ Helpers \subseteq db["src"].cols
  BY DEF AnswerHolds
<1>1. Says = answer.t /\ answer.t \in Tables /\ answer.t # ""
  BY DEF Says, OInv, IInv, TypeOK, Tables, Fresh, Session
<1>2. call # "none"
  <2>1. Fresher => \E was : Fits(NewCall(was))
    BY DEF Fresher
  <2>2. \A was : NewCall(was).says = ""
    BY DEF NewCall, Entry
  <2>3. ~Fresher
    BY <1>1, <2>1, <2>2 DEF Fits, Matches
  <2> QED
    BY <2>3 DEF OInv
<1>3. PICK a : a \in Knowledge /\ Fits(a) /\ Ended(backend, call, a)
  BY <1>2, IdleEnded DEF OInv, Placed
<1>4. a.was = before.cols /\ a.says = answer.t /\ \A t \in Tables : db[t] \in a.held[t]
  BY <1>1, <1>3 DEF Fits, Matches
<1>5. Told(a)
  BY <1>1, <1>3, <1>4 DEF Ended, Honest
<1>6. Helpers = {"work", "rowid"}
  BY DEF Helpers, Work, RowId
<1> QED
  BY <1>1, <1>4, <1>5, <1>6 DEF Told, Entire, Exists

\* However a call ends, and wherever a statement of it fails or the process stops,
\* some table has all the rows and columns the source had, for every set of programs
\* that have sound outlines and any number of faults and repetitions.
THEOREM RebuildKeepsCopy == Spec => []CopyKept
BY RebuildInvariant, CopyFollows, PTL

\* A call without a fault leaves the source with all its rows and columns, the new
\* columns it may have published and no helper columns, also when it was refused or
\* failed on the database, and whatever calls ran before it.
THEOREM RebuildKeepsSource == Spec => []SourceWhole
BY RebuildInvariant, WholeFollows, PTL

\* The table an answer names is there when the call is over, and if it is the source
\* nothing of it is lost.
THEOREM RebuildAnswers == Spec => []AnswerHolds
BY RebuildInvariant, AnswerFollows, PTL

\* However often it is repeated, a call does not fail on the database and may publish
\* its columns again, until something else fails or the markers are cleared.
THEOREM RebuildRepeats == Spec => []Repeatable
<1>1. OInv => Repeatable
  BY DEF OInv
<1> QED
  BY <1>1, RebuildInvariant, PTL
=============================================================================
