---------------------------- MODULE RebuildOutline ----------------------------
(***************************************************************************)
(* Proof outlines of the programs.  An outline of a list of statements     *)
(* notes at each of its places what can be known of the call there, and at *)
(* its end.  It is sound when every note follows from the one before it by *)
(* the statement in between, or by its failure, and when nothing that is   *)
(* known where a call may end or stop contradicts what Rebuild promises.   *)
(* That is a condition on one statement and the notes beside it.           *)
(***************************************************************************)
EXTENDS Rebuild

CONSTANT Outline(_, _)  \* backend, call |-> name of a list it runs -> list -> outline

\* What is known at a place: which columns the source had, for each table what it
\* may hold, whether a fault has happened before (quiet: never since the call was
\* new; sound: not in this run of it), and the table the answer so far names.
Knowledge ==
  [was : SUBSET Columns, cur : Tables, chain : {"none", "tried", "passed"},
   luck : {"quiet", "sound", "hurt"}, says : Tables \cup {""},
   marked : SUBSET BOOLEAN, held : [Tables -> SUBSET Contents]]

\* e says no more than a; nothing is as a says when a table may hold nothing.
Covers(e, a) ==
  /\ \A x \in {"was", "cur", "chain", "luck", "says"} : e[x] = a[x]
  /\ a.marked \subseteq e.marked
  /\ \A t \in Tables : a.held[t] \subseteq e.held[t]
Void(a) == \E t \in Tables : a.held[t] = {}
Among(a, known) == Void(a) \/ \E e \in known : Covers(e, a)
Within(few, known) == \A a \in few : Among(a, known)

-----------------------------------------------------------------------------
(* One statement. *)

Meant(a, t) == IF t = "in" THEN a.cur ELSE t
There(a, t) == a.held[t] \ {NoTable}
Put(a, t, held) == [a EXCEPT !.held[t] = held]
Recolumned(a, t, less, more) ==
  Put(a, t, {[rows |-> c.rows, cols |-> (c.cols \ less) \cup more] : c \in There(a, t)})
Tidy(held) == [x \in Tables |-> IF x \in Fresh \ {"c"} THEN {NoTable} ELSE held[x]]
Rows(s, c) == IF s.rows = "all" THEN c.rows ELSE s.rows

\* What is known when the statement has been carried out.
After(a, s) ==
  LET t == Meant(a, s.t)
      f == Meant(a, s.from)
  IN  CASE s.do = "read" -> Put(a, t, There(a, t))
        [] s.do \in {"add", "addif"} -> Recolumned(a, t, {}, s.cols)
        [] s.do = "dropcol" -> Recolumned(a, t, s.cols, {})
        [] s.do = "dropadded" -> Recolumned(a, t, s.cols \ a.was, {})
        [] s.do = "fill" /\ "own" \in s.cols ->
             Put(a, t, {[rows |-> "other", cols |-> c.cols] : c \in There(a, t)})
        [] s.do \in {"drop", "dropif"} -> Put(a, t, {NoTable})
        [] s.do = "rename" -> Put(Put(a, f, There(a, t)), t, {NoTable})
        [] s.do = "renamein" ->
             Put(Put(Put(a, "src", There(a, t)), f, There(a, "src")), t, {NoTable})
        [] s.do = "exchange" -> Put(Put(a, f, There(a, t)), t, There(a, f))
        [] s.do = "insert" ->
             Put(a, t, {[rows |-> Rows(s, d), cols |-> c.cols] :
                          c \in There(a, t), d \in There(a, f)})
        [] s.do \in {"make", "replace"} ->
             Put(a, t, {[rows |-> Rows(s, d), cols |-> (d.cols \ s.less) \cup s.cols] :
                          d \in There(a, f)})
        [] s.do = "has" -> Put(a, t, {c \in a.held[t] : s.cols \subseteq c.cols})
        [] s.do = "lacks" -> Put(a, t, {c \in a.held[t] : s.cols \cap c.cols = {}})
        [] s.do = "func" ->
             [a EXCEPT !.held = Tidy(@), !.chain = IF @ = "none" THEN "tried" ELSE @]
        [] s.do = "pass" ->
             [a EXCEPT !.held = Tidy([@ EXCEPT !["c"] = a.held[t]]), !.cur = "c",
                       !.chain = IF @ = "none" THEN "none" ELSE "passed"]
        [] s.do = "collect" -> [a EXCEPT !.chain = "none"]
        [] s.do = "unread" -> [a EXCEPT !.luck = "hurt"]
        [] s.do = "marker" -> [a EXCEPT !.marked = {TRUE}]
        [] s.do = "value" -> [a EXCEPT !.says = ""]
        [] s.do = "table" -> [a EXCEPT !.says = t]
        [] s.do = "mutates" -> [a EXCEPT !.says = "src"]
        [] OTHER -> a

\* The database cannot refuse it.
Sure(b, a, s) ==
  LET t == Meant(a, s.t)
      f == Meant(a, s.from)
      Made == \/ b = "duckdb"
              \/ \A d \in There(a, f) : (d.cols \ s.less) \cap s.cols = {}
      Present(x) == NoTable \notin a.held[x]
      Absent(x) == There(a, x) = {}
  IN  CASE s.do \in {"read", "addif", "dropcol", "dropadded", "drop"} -> Present(t)
        [] s.do = "add" -> Present(t) /\ \A c \in a.held[t] : s.cols \cap c.cols = {}
        [] s.do = "fill" -> Present(t) /\ \A c \in a.held[t] : s.cols \subseteq c.cols
        [] s.do = "rename" -> Present(t) /\ Absent(f)
        [] s.do = "renamein" -> Present(t) /\ Present("src") /\ Absent(f)
        [] s.do \in {"exchange", "insert"} -> Present(t) /\ Present(f)
        [] s.do = "make" -> Present(f) /\ Absent(t) /\ Made
        [] s.do = "replace" -> Present(f) /\ Made
        [] OTHER -> TRUE

Hurt(a) == [a EXCEPT !.luck = "hurt"]
Unanswered(a) == [a EXCEPT !.says = ""]
Undone(a, s) == IF s.undo = "" THEN a ELSE Put(a, Meant(a, s.undo), {NoTable})
Crashed(a) ==
  [a EXCEPT !.luck = "hurt", !.says = "",
            !.held = [x \in Tables |-> IF x \in Session THEN {NoTable} ELSE @[x]]]

-----------------------------------------------------------------------------
(* A call. *)

\* What is known when a new call begins, when one is repeated on a source with the
\* contents c, and when the markers are cleared in between.  A source that is gone
\* has no columns; one that is there has its own.
Older(held) == {IF c = NoTable THEN c ELSE [rows |-> "other", cols |-> c.cols] : c \in held}
Entry(was, luck, mark, held) ==
  [was |-> was, cur |-> "src", chain |-> "none", luck |-> luck, says |-> "",
   marked |-> mark,
   held |-> [x \in Tables |->
               IF x = "src" THEN {IF was = {} THEN NoTable ELSE [rows |-> "all", cols |-> was]}
               ELSE IF x \in Fresh THEN {NoTable} ELSE held[x]]]
NewCall(was) ==
  Entry(was, "quiet", {FALSE},
        [x \in Tables |-> IF x \in Session THEN {NoTable}
                          ELSE IF was = {} THEN Contents
                          ELSE {NoTable, [rows |-> "other", cols |-> {"own"}]}])
Again(a, c) ==
  Entry(IF c = NoTable THEN {} ELSE c.cols \cup {"own"},
        IF a.luck = "quiet" THEN "quiet" ELSE "sound", a.marked,
        IF c = NoTable THEN a.held ELSE [x \in Tables |-> Older(a.held[x])])
Cleared(a) == [a EXCEPT !.marked = {FALSE}, !.luck = IF @ = "quiet" THEN "sound" ELSE @]

Begins(b, n, a) ==
  \A p \in Programs[b][n] : Among(a, Outline(b, n)[n][p].at[1])

\* What Rebuild promises of a call that is not one of Edits and Spoils.
Full(c) == c.rows = "all" /\ "own" \in c.cols
Entire(a, c) == c.rows = "all" /\ a.was \ {"work", "rowid"} \subseteq c.cols
Copied(a) == \E t \in Tables : \A c \in a.held[t] : Full(c)
Whole(a) ==
  \A c \in a.held["src"] : Entire(a, c) /\ c.cols \subseteq a.was \cup {"own", "new"}
Told(a) ==
  /\ NoTable \notin a.held[a.says]
  /\ a.says = "src" => \A c \in a.held["src"] : Entire(a, c)
Honest(n) == n \notin Edits \cup Spoils

\* The call may end, with what is known.
Ended(b, n, a) ==
  /\ Honest(n) => /\ a.was # {} => Copied(a) /\ (a.luck # "hurt" => Whole(a))
                  /\ a.says # "" => Told(a)
  /\ \A c \in a.held["src"] :
       Begins(b, n, Again(a, c)) /\ Begins(b, n, Again(Cleared(a), c))

-----------------------------------------------------------------------------
(* Outlines. *)

Resuming == {"func", "collect"}

\* The notes beside one statement: `next` behind it, `left` where a chain goes on
\* that one of its functions was left in.
Stops(b, n, a, left) ==
  IF a.chain = "none" THEN Ended(b, n, Unanswered(a)) ELSE Among(a, left)
Fails(b, n, s, a, next, left) ==
  IF s.soft THEN Among(a, next) ELSE Stops(b, n, Undone(a, s), left)
\* Without a fault only a call known for it fails on the database.
Excused(n, a) == a.luck = "quiet" /\ a.was # {} => n \in Once

Runs(p, o, a, next, left) ==
  /\ Among(a, o.at[1])
  /\ Within(o.at[Len(p) + 1], next) /\ Within(o.left, left)
  /\ \A i \in DOMAIN p : p[i].do \notin Resuming

Follows(b, n, s, a, next, left) ==
  /\ Ended(b, n, Crashed(a))
  /\ s.do \notin {"run", "refuse"} /\ (s.do = "collect" => a.chain = "passed") =>
       Among(After(a, s), next)
  /\ s.do \in {"check", "refuse"} => Stops(b, n, a, left)
  /\ s.do = "collect" /\ a.chain # "passed" => Ended(b, n, Unanswered(After(a, s)))
  /\ s.do = "owned" /\ FALSE \in a.marked /\ (\E c \in a.held["src"] : "new" \in c.cols) =>
       Excused(n, a) /\ Ended(b, n, Unanswered(a))
  /\ ~Sure(b, a, s) =>
       (a.chain # "passed" => Excused(n, a)) /\ Fails(b, n, s, a, next, left)
  /\ s.do \in Sent => Fails(b, n, s, Hurt(a), next, left)
  /\ s.do = "run" =>
       /\ s.t \in DOMAIN Outline(b, n)
       /\ \A p \in Programs[b][s.t] : Runs(p, Outline(b, n)[s.t][p], a, next, left)

\* The outline o of the list s is sound.
Sound(b, n, s, o) ==
  /\ o.at \in [1..(Len(s) + 1) -> SUBSET Knowledge] /\ o.left \subseteq Knowledge
  /\ \A i \in 1..Len(s) :
       /\ \A a \in o.at[i] : Follows(b, n, s[i], a, o.at[i + 1], o.left)
       /\ s[i].do \in Resuming => Within(o.left, o.at[i])

Outlined(b, n) ==
  /\ n \in DOMAIN Outline(b, n)
  /\ \A m \in DOMAIN Outline(b, n) : \A p \in Programs[b][m] :
       Sound(b, n, p, Outline(b, n)[m][p])
  /\ \A p \in Programs[b][n] :
       \A a \in Outline(b, n)[n][p].at[Len(p) + 1] : Ended(b, n, a)
  /\ Begins(b, n, NewCall({})) /\ Begins(b, n, NewCall({"own"}))

ASSUME CallsNamed == \A b \in Backends : "none" \notin Calls \cup DOMAIN Programs[b]
ASSUME ProgramsOutlined ==
  \A b \in Backends : \A n \in Calls \cap DOMAIN Programs[b] : Outlined(b, n)
=============================================================================
