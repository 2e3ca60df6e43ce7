-------------------------- MODULE RecordCallProofs --------------------------
(***************************************************************************)
(* Proofs about RecordCall, for any tasks, sweepers, calls, shapes and     *)
(* bound, with and without failures.                                       *)
(***************************************************************************)
EXTENDS RecordCall, TLAPS

-----------------------------------------------------------------------------
(* Type correctness.                                                       *)

LEMMA IdleType == Idle \in Calls /\ NoRow.opidx = 0 /\ NoContent \in Contents
  BY DEF Idle, Calls, NoRow, NoContent, Contents, Steps, Kinds

\* The strengthening TypeOK needs: what a wrapper is about to write is of the
\* right type because of where it stands.
CallOK ==
  \A t \in Tasks :
    /\ call[t].pc # "idle" => call[t].key \in Keys
    /\ call[t].pc \in {"mark", "record", "payload"} => call[t].opidx # 0
    /\ call[t].pc = "create" => call[t].table # 0

TypeInv == TypeOK /\ CallOK

LEMMA InitType == Init => TypeInv
  <1> SUFFICES ASSUME Init PROVE TypeOK /\ CallOK
    BY DEF TypeInv
  <1>1. call \in [Tasks -> Calls] /\ answer \in [Tasks -> Contents]
    BY IdleType DEF Init
  <1>2. sweep \in [Sweepers -> Sweeps]
    BY DEF Init, Sweeps, NoSweep
  <1>3. source \in Sources
    <2>1. PICK sh \in Shapes :
            source = [exists |-> TRUE, data |-> 1, shape |-> sh,
                      cols |-> [k \in Keys |-> 0]]
      BY DEF Init
    <2> DEFINE none == [k \in Keys |-> 0]
    <2>2. none \in [Keys -> Nat]
      OBVIOUS
    <2> HIDE DEF none
    <2> QED BY <2>1, <2>2 DEF Sources, none
  <1>4. CallOK
    BY DEF Init, CallOK, Idle
  <1> QED BY <1>1, <1>2, <1>3, <1>4 DEF Init, TypeOK

LEMMA ReloadedType ==
  ASSUME TypeOK, NEW r \in Rows, NEW c \in Reloaded(r)
  PROVE  c \in Contents
  <1>1. r.key \in Keys BY DEF Rows
  <1>2. CASE r.kind = "actual" BY <1>2 DEF Reloaded, TypeOK
  <1>3. CASE r.kind = "table" BY <1>3 DEF Reloaded, TypeOK
  <1>4. CASE r.kind = "ref"
    <2>1. c = [key |-> r.key, data |-> source.cols[r.key]]
      BY <1>4 DEF Reloaded
    <2>2. source.cols[r.key] \in Nat BY <1>1 DEF TypeOK, Sources
    <2> QED BY <1>1, <2>1, <2>2 DEF Contents
  <1>5. r.kind \notin {"actual", "table", "ref"} => Reloaded(r) = {}
    BY DEF Reloaded
  <1> QED BY <1>2, <1>3, <1>4, <1>5

LEMMA NoRowReloads == Reloaded(NoRow) = {}
  BY DEF Reloaded, NoRow

LEMMA ReplayType ==
  ASSUME TypeOK, NEW t \in Tasks, Replay(t)
  PROVE  TypeOK'
  <1>1. call[t] \in Calls
    BY DEF TypeOK
  <1>2. CASE Lookup(t)
    <2>1. call' \in [Tasks -> Calls]
      <3>1. CASE Goto(t, [call[t] EXCEPT !.pc = "execute"])
        BY <1>1, <3>1 DEF TypeOK, Goto, Calls, Steps, Critical
      <3>2. ASSUME NEW r \in rows,
                   Goto(t, [call[t] EXCEPT !.pc = "fingerprint", !.row = r])
            PROVE  call' \in [Tasks -> Calls]
        BY <1>1, <3>2 DEF TypeOK, Goto, Calls, Steps, Critical
      <3> QED BY <1>2, <3>1, <3>2 DEF Lookup
    <2> QED BY <1>2, <2>1 DEF TypeOK, Lookup
  <1>3. CASE CheckFingerprint(t)
    <2>1. call' \in [Tasks -> Calls]
      <3>1. CASE Goto(t, [call[t] EXCEPT !.pc = "execute", !.row = NoRow])
        BY <1>1, <3>1 DEF TypeOK, Goto, Calls, Steps, Critical
      <3>2. CASE Goto(t, [call[t] EXCEPT !.pc = "evictRow"])
        BY <1>1, <3>2 DEF TypeOK, Goto, Calls, Steps, Critical
      <3>3. CASE Goto(t, [call[t] EXCEPT !.pc = "epoch"])
        BY <1>1, <3>3 DEF TypeOK, Goto, Calls, Steps, Critical
      <3> QED BY <1>3, <3>1, <3>2, <3>3 DEF CheckFingerprint
    <2> QED BY <1>3, <2>1 DEF TypeOK, CheckFingerprint
  <1>4. CASE CheckEpoch(t)
    BY <1>1, <1>4 DEF TypeOK, CheckEpoch, Goto, Calls, Steps, Critical
  <1>5. CASE EvictRow(t)
    BY <1>1, <1>5 DEF TypeOK, EvictRow, Goto, Calls, Steps, Critical
  <1>6. CASE EvictPayload(t)
    BY <1>1, <1>6 DEF TypeOK, EvictPayload, Goto, Calls, Steps, Critical
  <1>7. CASE EvictTable(t)
    BY <1>1, <1>7 DEF TypeOK, EvictTable, Goto, Calls, Steps, Critical, At
  <1>8. CASE Reuse(t)
    <2>1. call' \in [Tasks -> Calls]
      <3>1. CASE Goto(t, [call[t] EXCEPT !.pc = "execute", !.row = NoRow])
        BY <1>1, <3>1 DEF TypeOK, Goto, Calls, Steps, Critical
      <3>2. ASSUME NEW c \in Reloaded(call[t].row),
                   Goto(t, [call[t] EXCEPT !.pc = "deliver", !.ok = TRUE,
                                           !.of = c, !.row = NoRow])
            PROVE  call' \in [Tasks -> Calls]
        <4>1. c \in Contents
          BY <1>1, ReloadedType, NoRowReloads DEF Calls
        <4> QED BY <1>1, <3>2, <4>1 DEF TypeOK, Goto, Calls, Steps, Critical
      <3> QED BY <1>8, <3>1, <3>2 DEF Reuse
    <2> QED BY <1>8, <2>1 DEF TypeOK, Reuse
  <1> QED BY <1>2, <1>3, <1>4, <1>5, <1>6, <1>7, <1>8 DEF Replay

\* A write of the source gives it another version, shape and columns.
LEMMA WriteType ==
  ASSUME TypeOK, NEW k \in Keys, WriteSource(k)
  PROVE  source' \in Sources /\ source.data + 1 \in Nat
  <1>1. source \in Sources
    BY DEF TypeOK
  <1>2. PICK sh \in Shapes :
          source' = [source EXCEPT !.data = source.data + 1, !.shape = sh,
                      !.cols = [source.cols EXCEPT ![k] = source.data + 1]]
    BY DEF WriteSource
  <1> DEFINE cols == [source.cols EXCEPT ![k] = source.data + 1]
  <1>3. source.data + 1 \in Nat \ {0} /\ source.cols \in [Keys -> Nat]
    BY <1>1 DEF Sources
  <1>4. cols \in [Keys -> Nat]
    BY <1>3
  <1> HIDE DEF cols
  <1>5. source' = [source EXCEPT !.data = source.data + 1, !.shape = sh,
                                 !.cols = cols]
    BY <1>2 DEF cols
  <1> QED BY <1>1, <1>3, <1>4, <1>5 DEF Sources

\* The method's result is of the call's key.
LEMMA ComputedType ==
  ASSUME TypeOK, NEW t \in Tasks, NEW pc \in Steps, NEW d \in Nat,
         call[t].key \in Keys, Computed(t, pc, d)
  PROVE  call' \in [Tasks -> Calls]
  <1> DEFINE of == [key |-> call[t].key, data |-> d]
  <1>1. of \in Contents
    BY DEF Contents
  <1> HIDE DEF of
  <1>2. Goto(t, [call[t] EXCEPT !.pc = pc, !.ok = TRUE, !.of = of])
    BY DEF Computed, of
  <1>3. call \in [Tasks -> Calls] /\ call[t] \in Calls
    BY DEF TypeOK
  <1>4. [call[t] EXCEPT !.pc = pc, !.ok = TRUE, !.of = of] \in Calls
    BY <1>1, <1>3 DEF Calls
  <1> QED BY <1>2, <1>3, <1>4 DEF Goto

LEMMA ExecuteType ==
  ASSUME TypeInv, NEW t \in Tasks, Execute(t)
  PROVE  TypeOK'
  <1> USE DEF TypeInv
  <1>1. call[t] \in Calls
    BY DEF TypeOK
  <1>2. source.data \in Nat
    BY DEF TypeOK, Sources
  <1>3. CASE ExecuteStat(t)
    <2>1. call' \in [Tasks -> Calls]
      BY <1>2, <1>3, ComputedType DEF ExecuteStat, Keys, Steps, Critical
    <2> QED BY <1>3, <2>1 DEF TypeOK, ExecuteStat
  <1>4. CASE ExecuteUpdate(t)
    <2>1. call[t].key \in Keys
      BY <1>4 DEF ExecuteUpdate, Keys, Writes, Announced
    <2>2. source' \in Sources /\ source.data + 1 \in Nat
      BY <1>4, <2>1, WriteType DEF ExecuteUpdate
    <2>3. call' \in [Tasks -> Calls]
      BY <1>4, <2>1, <2>2, ComputedType DEF ExecuteUpdate, Steps, Critical
    <2> QED BY <1>4, <2>2, <2>3 DEF TypeOK, ExecuteUpdate
  <1>5. CASE ExecutePublish(t)
    <2>1. call[t].key \in Keys
      BY <1>5 DEF ExecutePublish, Keys, Writes, Announced
    <2>2. source' \in Sources /\ source.data + 1 \in Nat
      BY <1>5, <2>1, WriteType DEF ExecutePublish
    <2>3. call' \in [Tasks -> Calls]
      BY <1>5, <2>1, <2>2, ComputedType DEF ExecutePublish, Steps, Critical
    <2> QED BY <1>5, <2>2, <2>3 DEF TypeOK, ExecutePublish
  <1>6. CASE Mark(t)
    <2>1. call' \in [Tasks -> Calls]
      BY <1>1, <1>6 DEF TypeOK, Mark, Goto, Calls, Steps, Critical
    <2>2. [NoRow EXCEPT !.opidx = call[t].opidx, !.key = call[t].key,
                        !.kind = "marker"] \in Rows
      BY <1>1, <1>6 DEF CallOK, Mark, NoRow, Rows, Calls, Kinds
    <2> QED BY <1>6, <2>1, <2>2 DEF TypeOK, Mark
  <1>7. CASE ExecuteDerive(t)
    <2>1. PICK n \in {1} \union {r.opidx + 1 : r \in rows} :
            Goto(t, [call[t] EXCEPT !.pc = "create", !.table = n])
      BY <1>7 DEF ExecuteDerive
    <2>2. n \in Nat
      BY <2>1 DEF TypeOK, Rows
    <2>3. call' \in [Tasks -> Calls]
      BY <1>1, <2>1, <2>2 DEF TypeOK, Goto, Calls, Steps, Critical
    <2> QED BY <1>7, <2>3 DEF TypeOK, ExecuteDerive
  <1>8. CASE CreateTable(t)
    <2> DEFINE of == [key |-> call[t].key, data |-> source.data]
    <2>1. of \in Contents
      BY <1>1, <1>2 DEF Contents, Calls
    <2>2. call[t].table \in Nat \ {0}
      BY <1>1, <1>8 DEF CallOK, CreateTable, Calls
    <2>3. [name |-> call[t].table, place |-> "upload", of |-> of] \in
            [name : Nat \ {0}, place : {"upload", "cache"}, of : Contents]
      BY <2>1, <2>2
    <2>4. call' \in [Tasks -> Calls]
      <3> HIDE DEF of
      <3>1. CASE Goto(t, [call[t] EXCEPT !.pc = "txn", !.ok = TRUE, !.of = of])
        BY <1>1, <2>1, <3>1 DEF TypeOK, Goto, Calls, Steps, Critical
      <3>2. CASE Goto(t, [call[t] EXCEPT !.pc = "txn", !.table = 0])
        BY <1>1, <3>2 DEF TypeOK, Goto, Calls, Steps, Critical
      <3> QED BY <1>8, <3>1, <3>2 DEF CreateTable, of
    <2> QED BY <1>8, <2>3, <2>4 DEF TypeOK, CreateTable
  <1>9. CASE ExecuteError(t)
    <2>1. call' \in [Tasks -> Calls]
      BY <1>1, <1>9 DEF TypeOK, ExecuteError, Goto, Calls, Steps, Critical
    <2>2. source' \in Sources
      BY <1>9, WriteType DEF ExecuteError, TypeOK, Keys
    <2> QED BY <1>9, <2>1, <2>2 DEF TypeOK, ExecuteError
  <1>10. CASE ExecuteRaise(t)
    BY <1>10, IdleType DEF TypeOK, ExecuteRaise, Goto
  <1> QED
    BY <1>3, <1>4, <1>5, <1>6, <1>7, <1>8, <1>9, <1>10 DEF Execute

\* Whatever the epoch is read as, the wrapper keeps its types.
LEMMA StampEpochType ==
  ASSUME TypeOK, NEW t \in Tasks, NEW c \in Calls, StampEpoch(t, c)
  PROVE  call' \in [Tasks -> Calls] /\ epoch' \in Nat
  <1>1. call \in [Tasks -> Calls] /\ epoch \in Nat
    BY DEF TypeOK
  <1>2. ASSUME NEW e \in Nat PROVE [c EXCEPT !.epoch = e] \in Calls
    BY DEF Calls
  <1>3. epoch + 1 \in Nat /\ CurrentEpoch \in Nat
    BY <1>1 DEF CurrentEpoch
  <1> QED BY <1>1, <1>2, <1>3 DEF StampEpoch, Goto

\* Moving or dropping derived tables leaves well-formed ones.
LEMMA MovedType ==
  ASSUME TypeOK, NEW n
  PROVE  (tables \ At(n, "upload"))
           \union {[x EXCEPT !.place = "cache"] : x \in At(n, "upload")}
         \subseteq [name : Nat \ {0}, place : {"upload", "cache"}, of : Contents]
  BY DEF TypeOK, At

LEMMA StoreType ==
  ASSUME TypeInv, NEW t \in Tasks, Store(t)
  PROVE  TypeOK'
  <1> USE DEF TypeInv
  <1>1. call[t] \in Calls
    BY DEF TypeOK
  <1>2. CASE StoreDeep(t)
    <2> DEFINE Stored(kind) == [call[t] EXCEPT !.pc = "stamp", !.kind = kind]
    <2>1. \A kind \in Kinds : Stored(kind) \in Calls
      BY <1>1 DEF Calls, Steps, Critical
    <2>2. /\ [Stored("none") EXCEPT !.table = 0] \in Calls
          /\ \A d \in BOOLEAN : [Stored("none") EXCEPT !.deep = d] \in Calls
      BY <1>1 DEF Calls, Steps, Critical, Kinds
    <2>3. call' \in [Tasks -> Calls] /\ epoch' \in Nat
      <3> HIDE DEF Stored
      <3>1. PICK c \in Calls : StampEpoch(t, c)
        BY <1>2, <2>1, <2>2 DEF StoreDeep, Stored, Kinds
      <3> QED BY <3>1, StampEpochType
    <2>4. tables' \subseteq [name : Nat \ {0}, place : {"upload", "cache"},
                             of : Contents]
      BY <1>2, MovedType DEF StoreDeep, TypeOK
    <2> QED BY <1>2, <2>3, <2>4 DEF TypeOK, StoreDeep
  <1>21. CASE StoreMoved(t)
    <2> DEFINE kind == IF source.exists THEN "table" ELSE "none"
    <2>1. [call[t] EXCEPT !.pc = "stamp", !.table = 0, !.kind = kind] \in Calls
      BY <1>1 DEF Calls, Steps, Critical, Kinds
    <2>2. call' \in [Tasks -> Calls] /\ epoch' \in Nat
      BY <1>21, <2>1, StampEpochType DEF StoreMoved
    <2>3. source' \in Sources
      BY <1>21 DEF StoreMoved, TypeOK, Sources
    <2> QED BY <1>21, <2>2, <2>3 DEF TypeOK, StoreMoved
  <1>3. CASE StoreShallow(t)
    <2>1. [call[t] EXCEPT !.pc = "number", !.table = 0] \in Calls
      BY <1>1 DEF Calls, Steps, Critical
    <2>2. call' \in [Tasks -> Calls] /\ epoch' \in Nat
      BY <1>3, <2>1, StampEpochType DEF StoreShallow
    <2>3. source' \in Sources
      BY <1>3 DEF StoreShallow, TypeOK, Sources
    <2> QED BY <1>3, <2>2, <2>3 DEF TypeOK, StoreShallow, At
  <1>4. CASE StoreError(t)
    <2> DEFINE pc == IF call[t].deep THEN "stamp" ELSE "number"
    <2>1. [call[t] EXCEPT !.pc = pc] \in Calls
      BY <1>1 DEF Calls, Steps, Critical
    <2>2. call' \in [Tasks -> Calls] /\ epoch' \in Nat
      BY <1>4, <2>1, StampEpochType DEF StoreError
    <2> QED BY <1>4, <2>2 DEF TypeOK, StoreError
  <1>5. CASE Stamp(t)
    <2>1. source.shape \in Shapes
      BY DEF TypeOK, Sources
    <2>2. call' \in [Tasks -> Calls]
      <3>1. CASE Goto(t, [call[t] EXCEPT !.pc = "number", !.fp = source.shape])
        BY <1>1, <2>1, <3>1 DEF TypeOK, Goto, Calls, Steps, Critical
      <3>2. CASE Goto(t, [call[t] EXCEPT !.pc = "number"])
        BY <1>1, <3>2 DEF TypeOK, Goto, Calls, Steps, Critical
      <3> QED BY <1>5, <3>1, <3>2 DEF Stamp
    <2> QED BY <1>5, <2>2 DEF TypeOK, Stamp
  <1>6. CASE PickOpidx(t)
    <2>1. PICK n \in {1} \union {r.opidx + 1 : r \in rows} :
            \/ Goto(t, [call[t] EXCEPT !.pc = "record", !.opidx = n])
            \/ Goto(t, [call[t] EXCEPT !.pc = "mark", !.opidx = n])
      BY <1>6 DEF PickOpidx
    <2>2. n \in Nat
      BY <2>1 DEF TypeOK, Rows
    <2>3. call' \in [Tasks -> Calls]
      <3>1. CASE Goto(t, [call[t] EXCEPT !.pc = "record", !.opidx = n])
        BY <1>1, <2>2, <3>1 DEF TypeOK, Goto, Calls, Steps, Critical
      <3>2. CASE Goto(t, [call[t] EXCEPT !.pc = "mark", !.opidx = n])
        BY <1>1, <2>2, <3>2 DEF TypeOK, Goto, Calls, Steps, Critical
      <3> QED BY <2>1, <3>1, <3>2
    <2> QED BY <1>6, <2>3 DEF TypeOK, PickOpidx
  <1>7. CASE InsertRow(t)
    <2> DEFINE c == call[t]
    <2>1. [opidx |-> c.opidx, key |-> c.key, deep |-> c.deep, kind |-> c.kind,
           fp |-> c.fp, epoch |-> c.epoch, table |-> c.table] \in Rows
      BY <1>1, <1>7 DEF CallOK, InsertRow, Calls, Rows
    <2>2. call' \in [Tasks -> Calls]
      BY <1>1, <1>7 DEF TypeOK, InsertRow, Goto, Calls, Steps, Critical
    <2> QED BY <1>7, <2>1, <2>2 DEF TypeOK, InsertRow
  <1>8. CASE StorePayload(t)
    <2>1. [opidx |-> call[t].opidx, of |-> call[t].of] \in
            [opidx : Nat \ {0}, of : Contents]
      BY <1>1, <1>8 DEF CallOK, StorePayload, Calls
    <2>2. call' \in [Tasks -> Calls]
      BY <1>1, <1>8 DEF TypeOK, StorePayload, Goto, Calls, Steps, Critical
    <2> QED BY <1>8, <2>1, <2>2 DEF TypeOK, StorePayload
  <1>9. CASE Deliver(t)
    <2>1. call[t].of \in Contents
      BY <1>1 DEF Calls
    <2> QED BY <1>9, <2>1, IdleType DEF TypeOK, Deliver, Goto
  <1> QED
    BY <1>2, <1>21, <1>3, <1>4, <1>5, <1>6, <1>7, <1>8, <1>9 DEF Store

LEMMA OuterType ==
  ASSUME TypeOK,
         \/ \E t \in Tasks : Begin(t) \/ Acquire(t) \/ Fail(t)
         \/ \E s \in Sweepers : SweepRead(s) \/ SweepCommit(s)
         \/ Edit \/ UNCHANGED vars
  PROVE  TypeOK'
  <1>1. ASSUME NEW t \in Tasks, Begin(t) PROVE TypeOK'
    <2>1. PICK k \in Keys, d \in DeepModes :
            Goto(t, [Idle EXCEPT !.pc = "acquire", !.key = k, !.deep = d])
      BY <1>1 DEF Begin
    <2>2. [Idle EXCEPT !.pc = "acquire", !.key = k, !.deep = d] \in Calls
      BY IdleType, ModesAssumption DEF Calls, Steps
    <2> DEFINE c == [Idle EXCEPT !.pc = "acquire", !.key = k, !.deep = d]
    <2>3. call' \in [Tasks -> Calls]
      <3>1. c \in Calls /\ Goto(t, c)
        BY <2>1, <2>2
      <3> HIDE DEF c
      <3> QED BY <3>1 DEF TypeOK, Goto
    <2>4. answer' \in [Tasks -> Contents]
      BY <1>1, IdleType DEF TypeOK, Begin
    <2>5. begun' \in Nat
      <3>1. begun \in Nat /\ begun' = begun + 1
        BY <1>1 DEF TypeOK, Begin
      <3> QED BY <3>1
    <2> QED BY <1>1, <2>3, <2>4, <2>5 DEF TypeOK, Begin
  <1>2. ASSUME NEW t \in Tasks, Acquire(t) PROVE TypeOK'
    <2> DEFINE pc == IF call[t].deep THEN "lookup" ELSE "execute"
    <2>1. [call[t] EXCEPT !.pc = pc] \in Calls
      BY DEF TypeOK, Calls, Steps, Critical
    <2> QED BY <1>2, <2>1 DEF TypeOK, Acquire, Goto
  <1>3. ASSUME NEW t \in Tasks, Fail(t) PROVE TypeOK'
    BY <1>3, IdleType DEF TypeOK, Fail, Goto
  <1>4. ASSUME NEW s \in Sweepers, SweepRead(s) PROVE TypeOK'
    <2>1. Owned \subseteq Nat /\ MarksSource \in BOOLEAN
      BY DEF Owned, MarksSource, TypeOK, Rows
    <2> HIDE DEF Owned, MarksSource
    <2>2. sweep' \in [Sweepers -> Sweeps]
      BY <1>4, <2>1 DEF TypeOK, SweepRead, Sweeps
    <2> QED BY <1>4, <2>2 DEF TypeOK, SweepRead
  <1>5. ASSUME NEW s \in Sweepers, SweepCommit(s) PROVE TypeOK'
    <2>1. sweep' \in [Sweepers -> Sweeps]
      BY <1>5 DEF TypeOK, SweepCommit, Sweeps, NoSweep
    <2>2. source' \in Sources
      BY <1>5 DEF TypeOK, SweepCommit, Sources
    <2> QED BY <1>5, <2>1, <2>2 DEF TypeOK, SweepCommit
  <1>6. CASE Edit
    <2>1. PICK sh \in Shapes :
            source' = [source EXCEPT !.data = source.data + 1, !.shape = sh]
      BY <1>6 DEF Edit
    <2>2. source \in Sources /\ source.data + 1 \in Nat \ {0}
      BY DEF TypeOK, Sources
    <2>3. source' \in Sources
      BY <2>1, <2>2 DEF Sources
    <2>4. begun' \in Nat
      <3>1. begun \in Nat /\ begun' = begun + 1
        BY <1>6 DEF TypeOK, Edit
      <3> QED BY <3>1
    <2> QED BY <1>6, <2>3, <2>4 DEF TypeOK, Edit
  <1>7. CASE UNCHANGED vars
    BY <1>7 DEF TypeOK, vars
  <1> QED BY <1>1, <1>2, <1>3, <1>4, <1>5, <1>6, <1>7

\* A step of t changes only t's record, so CallOK is about the new one.
LEMMA GotoCallOK ==
  ASSUME TypeInv, NEW t \in Tasks, NEW c, Goto(t, c),
         c.pc # "idle" => c.key \in Keys,
         c.pc \in {"mark", "record", "payload"} => c.opidx # 0,
         c.pc = "create" => c.table # 0
  PROVE  CallOK'
  BY DEF TypeInv, TypeOK, CallOK, Goto

\* Most steps keep the key and go where no number is needed.
LEMMA PlainCallOK ==
  ASSUME TypeInv, NEW t \in Tasks, NEW c, Goto(t, c), call[t].pc # "idle",
         c.key = call[t].key,
         c.pc \notin {"mark", "record", "payload", "create"}
  PROVE  CallOK'
  BY GotoCallOK DEF TypeInv, CallOK

LEMMA ReplayCallOK ==
  ASSUME TypeInv, NEW t \in Tasks, Replay(t)
  PROVE  CallOK'
  <1>1. call[t] \in Calls
    BY DEF TypeInv, TypeOK
  <1>2. CASE Lookup(t)
    BY <1>1, <1>2, PlainCallOK DEF Lookup, Calls
  <1>3. CASE CheckFingerprint(t)
    BY <1>1, <1>3, PlainCallOK DEF CheckFingerprint, Calls
  <1>4. CASE CheckEpoch(t)
    BY <1>1, <1>4, PlainCallOK DEF CheckEpoch, Calls
  <1>5. CASE EvictRow(t)
    BY <1>1, <1>5, PlainCallOK DEF EvictRow, Calls
  <1>6. CASE EvictPayload(t)
    BY <1>1, <1>6, PlainCallOK DEF EvictPayload, Calls
  <1>7. CASE EvictTable(t)
    BY <1>1, <1>7, PlainCallOK DEF EvictTable, Calls
  <1>8. CASE Reuse(t)
    BY <1>1, <1>8, PlainCallOK DEF Reuse, Calls
  <1> QED BY <1>2, <1>3, <1>4, <1>5, <1>6, <1>7, <1>8 DEF Replay

LEMMA ExecuteCallOK ==
  ASSUME TypeInv, NEW t \in Tasks, Execute(t)
  PROVE  CallOK'
  <1>1. call[t] \in Calls
    BY DEF TypeInv, TypeOK
  <1>2. CASE ExecuteStat(t)
    BY <1>1, <1>2, PlainCallOK DEF ExecuteStat, Computed, Calls
  <1>3. CASE ExecuteUpdate(t)
    BY <1>1, <1>3, PlainCallOK DEF ExecuteUpdate, Computed, Calls
  <1>4. CASE ExecutePublish(t)
    BY <1>1, <1>4, PlainCallOK DEF ExecutePublish, Computed, Calls
  <1>5. CASE Mark(t)
    BY <1>1, <1>5, PlainCallOK DEF Mark, Calls
  <1>6. CASE ExecuteDerive(t)
    <2>1. PICK n \in {1} \union {r.opidx + 1 : r \in rows} :
            Goto(t, [call[t] EXCEPT !.pc = "create", !.table = n])
      BY <1>6 DEF ExecuteDerive
    <2>2. n # 0
      BY <2>1 DEF TypeInv, TypeOK, Rows
    <2>3. call[t].key \in Keys
      BY <1>6 DEF ExecuteDerive, TypeInv, CallOK
    <2> QED BY <1>1, <2>1, <2>2, <2>3, GotoCallOK DEF Calls
  <1>7. CASE CreateTable(t)
    BY <1>1, <1>7, PlainCallOK DEF CreateTable, Calls
  <1>8. CASE ExecuteError(t)
    BY <1>1, <1>8, PlainCallOK DEF ExecuteError, Calls
  <1>9. CASE ExecuteRaise(t)
    BY <1>9, GotoCallOK DEF ExecuteRaise, Idle
  <1> QED
    BY <1>2, <1>3, <1>4, <1>5, <1>6, <1>7, <1>8, <1>9 DEF Execute

LEMMA StoreCallOK ==
  ASSUME TypeInv, NEW t \in Tasks, Store(t)
  PROVE  CallOK'
  <1>1. call[t] \in Calls
    BY DEF TypeInv, TypeOK
  <1>2. ASSUME NEW c \in Calls, StampEpoch(t, c), call[t].pc = "txn",
               c.key = call[t].key, c.pc \in {"stamp", "number"}
        PROVE  CallOK'
    <2>1. PICK e : Goto(t, [c EXCEPT !.epoch = e])
      BY <1>2 DEF StampEpoch
    <2> QED BY <1>2, <2>1, PlainCallOK DEF Calls
  <1>3. CASE StoreDeep(t)
    <2> DEFINE Stored(kind) == [call[t] EXCEPT !.pc = "stamp", !.kind = kind]
    <2>1. \A kind \in Kinds : /\ Stored(kind) \in Calls
                              /\ Stored(kind).key = call[t].key
                              /\ Stored(kind).pc = "stamp"
      BY <1>1 DEF Calls, Steps, Critical
    <2>2. /\ LET c == [Stored("none") EXCEPT !.table = 0]
             IN  c \in Calls /\ c.key = call[t].key /\ c.pc = "stamp"
          /\ \A d \in BOOLEAN :
               LET c == [Stored("none") EXCEPT !.deep = d]
               IN  c \in Calls /\ c.key = call[t].key /\ c.pc = "stamp"
      BY <1>1 DEF Calls, Steps, Critical, Kinds
    <2> HIDE DEF Stored
    <2>3. PICK c \in Calls :
            StampEpoch(t, c) /\ c.key = call[t].key /\ c.pc = "stamp"
      BY <1>3, <2>1, <2>2 DEF StoreDeep, Stored, Kinds
    <2> QED BY <1>2, <1>3, <2>3 DEF StoreDeep
  <1>21. CASE StoreMoved(t)
    <2> DEFINE kind == IF source.exists THEN "table" ELSE "none"
               c == [call[t] EXCEPT !.pc = "stamp", !.table = 0, !.kind = kind]
    <2>1. c \in Calls /\ c.key = call[t].key /\ c.pc = "stamp"
      BY <1>1 DEF Calls, Steps, Critical, Kinds
    <2> QED BY <1>2, <1>21, <2>1 DEF StoreMoved
  <1>4. CASE StoreShallow(t)
    <2> DEFINE c == [call[t] EXCEPT !.pc = "number", !.table = 0]
    <2>1. c \in Calls /\ c.key = call[t].key /\ c.pc = "number"
      BY <1>1 DEF Calls, Steps, Critical
    <2> QED BY <1>2, <1>4, <2>1 DEF StoreShallow
  <1>5. CASE StoreError(t)
    <2> DEFINE pc == IF call[t].deep THEN "stamp" ELSE "number"
               c == [call[t] EXCEPT !.pc = pc]
    <2>1. c \in Calls /\ c.key = call[t].key /\ c.pc \in {"stamp", "number"}
      BY <1>1 DEF Calls, Steps, Critical
    <2> QED BY <1>2, <1>5, <2>1 DEF StoreError
  <1>6. CASE Stamp(t)
    BY <1>1, <1>6, PlainCallOK DEF Stamp, Calls
  <1>7. CASE PickOpidx(t)
    <2>1. PICK n \in {1} \union {r.opidx + 1 : r \in rows} :
            \/ Goto(t, [call[t] EXCEPT !.pc = "record", !.opidx = n])
            \/ Goto(t, [call[t] EXCEPT !.pc = "mark", !.opidx = n])
      BY <1>7 DEF PickOpidx
    <2>2. n # 0
      BY <2>1 DEF TypeInv, TypeOK, Rows
    <2>3. call[t].key \in Keys
      BY <1>7 DEF PickOpidx, TypeInv, CallOK
    <2> QED BY <1>1, <2>1, <2>2, <2>3, GotoCallOK DEF Calls
  <1>8. CASE InsertRow(t)
    <2>1. call[t].key \in Keys /\ call[t].opidx # 0
      BY <1>8 DEF InsertRow, TypeInv, CallOK
    <2> QED BY <1>1, <1>8, <2>1, GotoCallOK DEF InsertRow, Calls
  <1>9. CASE StorePayload(t)
    BY <1>1, <1>9, PlainCallOK DEF StorePayload, Calls
  <1>10. CASE Deliver(t)
    BY <1>10, GotoCallOK DEF Deliver, Idle
  <1> QED
    BY <1>3, <1>21, <1>4, <1>5, <1>6, <1>7, <1>8, <1>9, <1>10 DEF Store

LEMMA OuterCallOK ==
  ASSUME TypeInv,
         \/ \E t \in Tasks : Begin(t) \/ Acquire(t) \/ Fail(t)
         \/ \E s \in Sweepers : SweepRead(s) \/ SweepCommit(s)
         \/ Edit \/ UNCHANGED vars
  PROVE  CallOK'
  <1>1. ASSUME NEW t \in Tasks, Begin(t) PROVE CallOK'
    <2>1. PICK k \in Keys, d \in DeepModes :
            Goto(t, [Idle EXCEPT !.pc = "acquire", !.key = k, !.deep = d])
      BY <1>1 DEF Begin
    <2> QED BY <2>1, GotoCallOK DEF Idle
  <1>2. ASSUME NEW t \in Tasks, Acquire(t) PROVE CallOK'
    <2>1. call[t] \in Calls
      BY DEF TypeInv, TypeOK
    <2> QED BY <1>2, <2>1, PlainCallOK DEF Acquire, Calls
  <1>3. ASSUME NEW t \in Tasks, Fail(t) PROVE CallOK'
    BY <1>3, GotoCallOK DEF Fail, Idle
  <1>4. (\E s \in Sweepers : SweepRead(s) \/ SweepCommit(s)) \/ Edit => CallOK'
    BY DEF TypeInv, CallOK, SweepRead, SweepCommit, Edit
  <1>5. CASE UNCHANGED vars
    BY <1>5 DEF TypeInv, CallOK, vars
  <1> QED BY <1>1, <1>2, <1>3, <1>4, <1>5

LEMMA NextType ==
  ASSUME TypeInv, [Next]_vars
  PROVE  TypeInv'
  <1>1. CASE \E t \in Tasks : Work(t)
    BY <1>1, ReplayType, ExecuteType, StoreType, ReplayCallOK, ExecuteCallOK,
       StoreCallOK DEF TypeInv, Work
  <1>2. ASSUME \/ \E t \in Tasks : Begin(t) \/ Acquire(t) \/ Fail(t)
               \/ \E s \in Sweepers : SweepRead(s) \/ SweepCommit(s)
               \/ Edit \/ UNCHANGED vars
        PROVE  TypeInv'
    BY <1>2, OuterType, OuterCallOK DEF TypeInv
  <1> QED BY <1>1, <1>2 DEF Next, Quiesce

(* Whatever fails, whoever writes and whatever is swept, the registry, the *)
(* payloads and the wrappers' variables keep their types.                  *)
THEOREM TypeCorrect == Spec => []TypeOK
  <1>1. Spec => []TypeInv
    BY InitType, NextType, PTL DEF Spec
  <1> QED BY <1>1, PTL DEF TypeInv

-----------------------------------------------------------------------------
(* What the steps of one wrapper leave alone.                              *)

Others(t) == \A u \in Tasks \ {t} : call'[u] = call[u]

LEMMA GotoFrame ==
  ASSUME TypeInv, NEW t \in Tasks, NEW c, Goto(t, c)
  PROVE  Others(t) /\ call'[t] = c
  BY DEF TypeInv, TypeOK, Goto, Others

\* Where the steps of a wrapper take it, as far as numbers and epochs go.
LEMMA BeginMoves ==
  ASSUME TypeInv, NEW t \in Tasks, Begin(t)
  PROVE  Others(t) /\ call'[t].pc = "acquire" /\ call'[t].epoch = 0
  <1>1. PICK k \in Keys, d \in DeepModes :
          Goto(t, [Idle EXCEPT !.pc = "acquire", !.key = k, !.deep = d])
    BY DEF Begin
  <1>2. /\ Others(t)
        /\ call'[t] = [Idle EXCEPT !.pc = "acquire", !.key = k, !.deep = d]
    BY <1>1, GotoFrame
  <1> QED BY <1>2 DEF Idle

KeepsKey(t) ==
  call'[t] = Idle \/ (call'[t].pc # "idle" /\ call'[t].key = call[t].key)

NoNumber(t) ==
  /\ call'[t].pc \notin {"record", "mark"}
  /\ call'[t].epoch \in {0, call[t].epoch}
  /\ KeepsKey(t)

LEMMA AcquireMoves ==
  ASSUME TypeInv, NEW t \in Tasks, Acquire(t)
  PROVE  Others(t) /\ NoNumber(t)
  <1>1. call[t] \in Calls
    BY DEF TypeInv, TypeOK
  <1>2. /\ Others(t)
        /\ call'[t] = [call[t] EXCEPT
                         !.pc = IF call[t].deep THEN "lookup" ELSE "execute"]
    BY GotoFrame DEF Acquire
  <1> QED BY <1>1, <1>2 DEF NoNumber, KeepsKey, Calls

LEMMA ReplayMoves ==
  ASSUME TypeInv, NEW t \in Tasks, Replay(t)
  PROVE  NoNumber(t)
  <1>1. call[t] \in Calls
    BY DEF TypeInv, TypeOK
  <1>2. CASE Lookup(t)
    <2>1. PICK r : \/ call'[t] = [call[t] EXCEPT !.pc = "fingerprint", !.row = r]
                   \/ call'[t] = [call[t] EXCEPT !.pc = "execute"]
      BY <1>2, GotoFrame DEF Lookup
    <2> QED BY <1>1, <2>1 DEF NoNumber, KeepsKey, Calls
  <1>3. CASE CheckFingerprint(t)
    <2>1. \/ call'[t] = [call[t] EXCEPT !.pc = "execute", !.row = NoRow]
          \/ call'[t] = [call[t] EXCEPT !.pc = "evictRow"]
          \/ call'[t] = [call[t] EXCEPT !.pc = "epoch"]
      BY <1>3, GotoFrame DEF CheckFingerprint
    <2> QED BY <1>1, <2>1 DEF NoNumber, KeepsKey, Calls
  <1>4. CASE CheckEpoch(t)
    <2>1. PICK e : call'[t] = [call[t] EXCEPT
                     !.pc = IF e > call[t].row.epoch THEN "evictRow" ELSE "reuse"]
      BY <1>4, GotoFrame DEF CheckEpoch
    <2> QED BY <1>1, <2>1 DEF NoNumber, KeepsKey, Calls
  <1>5. CASE EvictRow(t)
    <2>1. call'[t] = [call[t] EXCEPT !.pc = "evictPayload"]
      BY <1>5, GotoFrame DEF EvictRow
    <2> QED BY <1>1, <2>1 DEF NoNumber, KeepsKey, Calls
  <1>6. CASE EvictPayload(t)
    <2>1. call'[t] = [call[t] EXCEPT !.pc = "evictTable"]
      BY <1>6, GotoFrame DEF EvictPayload
    <2> QED BY <1>1, <2>1 DEF NoNumber, KeepsKey, Calls
  <1>7. CASE EvictTable(t)
    <2>1. call'[t] = [call[t] EXCEPT !.pc = "execute", !.row = NoRow]
      BY <1>7, GotoFrame DEF EvictTable
    <2> QED BY <1>1, <2>1 DEF NoNumber, KeepsKey, Calls
  <1>8. CASE Reuse(t)
    <2>1. PICK c : \/ call'[t] = [call[t] EXCEPT !.pc = "deliver", !.ok = TRUE,
                                                  !.of = c, !.row = NoRow]
                   \/ call'[t] = [call[t] EXCEPT !.pc = "execute", !.row = NoRow]
      BY <1>8, GotoFrame DEF Reuse
    <2> QED BY <1>1, <2>1 DEF NoNumber, KeepsKey, Calls
  <1> QED BY <1>2, <1>3, <1>4, <1>5, <1>6, <1>7, <1>8 DEF Replay

LEMMA ExecuteMoves ==
  ASSUME TypeInv, NEW t \in Tasks, Execute(t)
  PROVE  NoNumber(t)
  <1>1. call[t] \in Calls
    BY DEF TypeInv, TypeOK
  <1>2. ASSUME NEW pc, NEW d, Computed(t, pc, d), pc \in {"txn", "markNumber"}
        PROVE  NoNumber(t)
    <2>1. call'[t] = [call[t] EXCEPT !.pc = pc, !.ok = TRUE,
                                     !.of = [key |-> call[t].key, data |-> d]]
      BY <1>2, GotoFrame DEF Computed
    <2> QED BY <1>1, <1>2, <2>1 DEF NoNumber, KeepsKey, Calls
  <1>3. ExecuteStat(t) \/ ExecuteUpdate(t) \/ ExecutePublish(t) => NoNumber(t)
    BY <1>2 DEF ExecuteStat, ExecuteUpdate, ExecutePublish
  <1>4. CASE Mark(t)
    <2>1. call'[t] = [call[t] EXCEPT !.pc = "txn", !.opidx = 0]
      BY <1>4, GotoFrame DEF Mark
    <2> QED BY <1>1, <2>1 DEF NoNumber, KeepsKey, Calls
  <1>5. CASE ExecuteDerive(t)
    <2>1. PICK n : call'[t] = [call[t] EXCEPT !.pc = "create", !.table = n]
      BY <1>5, GotoFrame DEF ExecuteDerive
    <2> QED BY <1>1, <2>1 DEF NoNumber, KeepsKey, Calls
  <1>6. CASE CreateTable(t)
    <2>1. PICK of : \/ call'[t] = [call[t] EXCEPT !.pc = "txn", !.ok = TRUE, !.of = of]
                    \/ call'[t] = [call[t] EXCEPT !.pc = "txn", !.table = 0]
      BY <1>6, GotoFrame DEF CreateTable
    <2> QED BY <1>1, <2>1 DEF NoNumber, KeepsKey, Calls
  <1>7. CASE ExecuteError(t)
    <2>1. call'[t] = [call[t] EXCEPT !.pc = "txn", !.table = 0]
      BY <1>7, GotoFrame DEF ExecuteError
    <2> QED BY <1>1, <2>1 DEF NoNumber, KeepsKey, Calls
  <1>8. CASE ExecuteRaise(t)
    <2>1. call'[t] = Idle
      BY <1>8, GotoFrame DEF ExecuteRaise
    <2> QED BY <2>1 DEF NoNumber, KeepsKey, Idle
  <1> QED BY <1>3, <1>4, <1>5, <1>6, <1>7, <1>8 DEF Execute

LEMMA StampEpochMoves ==
  ASSUME TypeInv, NEW t \in Tasks, NEW c \in Calls, StampEpoch(t, c)
  PROVE  /\ call'[t].pc = c.pc /\ call'[t].key = c.key
         /\ \/ epoch' = epoch + 1 /\ call'[t].epoch \in {0, epoch'}
            \/ epoch' = epoch /\ call'[t].epoch \in {0, CurrentEpoch}
  <1>1. PICK e : /\ call'[t] = [c EXCEPT !.epoch = e]
                 /\ \/ epoch' = epoch + 1 /\ e \in {0, epoch'}
                    \/ epoch' = epoch /\ e \in {0, CurrentEpoch}
    <2>1. ASSUME NEW e \in {0, epoch + 1}, epoch' = epoch + 1,
                 Goto(t, [c EXCEPT !.epoch = e])
          PROVE  call'[t] = [c EXCEPT !.epoch = e]
      BY <2>1, GotoFrame
    <2>2. ASSUME NEW e \in {0, CurrentEpoch}, epoch' = epoch,
                 Goto(t, [c EXCEPT !.epoch = e])
          PROVE  call'[t] = [c EXCEPT !.epoch = e]
      BY <2>2, GotoFrame
    <2> QED BY <2>1, <2>2 DEF StampEpoch
  <1> QED BY <1>1 DEF Calls

\* The outcomes of the transaction block.
StoreTxn(t) ==
  StoreDeep(t) \/ StoreMoved(t) \/ StoreShallow(t) \/ StoreError(t)

LEMMA StoreTxnStamps ==
  ASSUME TypeInv, NEW t \in Tasks, StoreTxn(t)
  PROVE  \E c \in Calls : /\ StampEpoch(t, c) /\ c.key = call[t].key
                         /\ c.pc \in {"stamp", "number"}
  <1>1. call[t] \in Calls
    BY DEF TypeInv, TypeOK
  <1>2. CASE StoreDeep(t)
    <2> DEFINE Stored(kind) == [call[t] EXCEPT !.pc = "stamp", !.kind = kind]
    <2>1. \A kind \in Kinds : /\ Stored(kind) \in Calls /\ Stored(kind).pc = "stamp"
                              /\ Stored(kind).key = call[t].key
      BY <1>1 DEF Calls, Steps, Critical
    <2>2. /\ LET c == [Stored("none") EXCEPT !.table = 0]
             IN  c \in Calls /\ c.pc = "stamp" /\ c.key = call[t].key
          /\ \A d \in BOOLEAN :
               LET c == [Stored("none") EXCEPT !.deep = d]
               IN  c \in Calls /\ c.pc = "stamp" /\ c.key = call[t].key
      BY <1>1 DEF Calls, Steps, Critical, Kinds
    <2> HIDE DEF Stored
    <2> QED BY <1>2, <2>1, <2>2 DEF StoreDeep, Stored, Kinds
  <1>21. CASE StoreMoved(t)
    <2> DEFINE kind == IF source.exists THEN "table" ELSE "none"
    <2>1. LET c == [call[t] EXCEPT !.pc = "stamp", !.table = 0, !.kind = kind]
          IN  c \in Calls /\ c.pc = "stamp" /\ c.key = call[t].key
      BY <1>1 DEF Calls, Steps, Critical, Kinds
    <2> QED BY <1>21, <2>1 DEF StoreMoved
  <1>3. CASE StoreShallow(t)
    <2>1. LET c == [call[t] EXCEPT !.pc = "number", !.table = 0]
          IN  c \in Calls /\ c.pc = "number" /\ c.key = call[t].key
      BY <1>1 DEF Calls, Steps, Critical
    <2> QED BY <1>3, <2>1 DEF StoreShallow
  <1>4. CASE StoreError(t)
    <2>1. LET c == [call[t] EXCEPT !.pc = IF call[t].deep THEN "stamp" ELSE "number"]
          IN  c \in Calls /\ c.pc \in {"stamp", "number"} /\ c.key = call[t].key
      BY <1>1 DEF Calls, Steps, Critical
    <2> QED BY <1>4, <2>1 DEF StoreError
  <1> QED BY <1>2, <1>21, <1>3, <1>4 DEF StoreTxn

LEMMA StoreMoves ==
  ASSUME TypeInv, NEW t \in Tasks, Store(t), ~StoreTxn(t), ~PickOpidx(t)
  PROVE  NoNumber(t) /\ epoch' = epoch
  <1>1. call[t] \in Calls
    BY DEF TypeInv, TypeOK
  <1>2. CASE Stamp(t)
    <2>1. \/ call'[t] = [call[t] EXCEPT !.pc = "number", !.fp = source.shape]
          \/ call'[t] = [call[t] EXCEPT !.pc = "number"]
      BY <1>2, GotoFrame DEF Stamp
    <2> QED BY <1>1, <1>2, <2>1 DEF NoNumber, KeepsKey, Calls, Stamp
  <1>3. CASE InsertRow(t)
    <2>1. call'[t] = [call[t] EXCEPT
                        !.pc = IF call[t].kind = "actual" THEN "payload" ELSE "deliver"]
      BY <1>3, GotoFrame DEF InsertRow
    <2> QED BY <1>1, <1>3, <2>1 DEF NoNumber, KeepsKey, Calls, InsertRow
  <1>4. CASE StorePayload(t)
    <2>1. call'[t] = [call[t] EXCEPT !.pc = "deliver"]
      BY <1>4, GotoFrame DEF StorePayload
    <2> QED BY <1>1, <1>4, <2>1 DEF NoNumber, KeepsKey, Calls, StorePayload
  <1>5. CASE Deliver(t)
    <2>1. call'[t] = Idle
      BY <1>5, GotoFrame DEF Deliver
    <2> QED BY <1>5, <2>1 DEF NoNumber, KeepsKey, Idle, Deliver
  <1> QED BY <1>2, <1>3, <1>4, <1>5 DEF Store, StoreTxn

LEMMA PickMoves ==
  ASSUME TypeInv, NEW t \in Tasks, PickOpidx(t)
  PROVE  /\ IsNext(call'[t].opidx)
         /\ call'[t].epoch = call[t].epoch
         /\ KeepsKey(t)
         /\ rows' = rows /\ epoch' = epoch
  <1>1. call[t] \in Calls
    BY DEF TypeInv, TypeOK
  <1>2. PICK n : /\ IsNext(n)
                 /\ \/ call'[t] = [call[t] EXCEPT !.pc = "record", !.opidx = n]
                    \/ call'[t] = [call[t] EXCEPT !.pc = "mark", !.opidx = n]
    BY GotoFrame DEF PickOpidx
  <1>3. call'[t].opidx = n /\ call'[t].epoch = call[t].epoch /\ KeepsKey(t)
    BY <1>1, <1>2 DEF Calls, KeepsKey
  <1> QED BY <1>2, <1>3 DEF PickOpidx

\* Under the lock only the wrapper itself moves, and it keeps the lock
\* unless it ends.
WorkFrame(t) ==
  /\ call[t].pc \in Critical
  /\ Others(t)
  /\ \/ lock' = lock
     \/ lock' = NoTask /\ call'[t].pc = "idle"
  /\ registered' = registered
  /\ sweep' = sweep

LEMMA ReplayFrame ==
  ASSUME TypeInv, NEW t \in Tasks, Replay(t)
  PROVE  WorkFrame(t) /\ rows' \subseteq rows /\ epoch' = epoch
  <1>1. \E c : Goto(t, c)
    BY DEF Replay, Lookup, CheckFingerprint, CheckEpoch, EvictRow, EvictPayload,
       EvictTable, Reuse
  <1>2. Others(t)
    BY <1>1, GotoFrame
  <1>3. call[t].pc \in Critical /\ lock' = lock
    BY DEF Replay, Lookup, CheckFingerprint, CheckEpoch, EvictRow, EvictPayload,
       EvictTable, Reuse, Critical
  <1>4. rows' \subseteq rows /\ UNCHANGED <<epoch, registered, sweep>>
    BY DEF Replay, Lookup, CheckFingerprint, CheckEpoch, EvictRow, EvictPayload,
       EvictTable, Reuse
  <1> QED BY <1>2, <1>3, <1>4 DEF WorkFrame

LEMMA ExecuteFrame ==
  ASSUME TypeInv, NEW t \in Tasks, Execute(t)
  PROVE  WorkFrame(t) /\ (Mark(t) \/ rows' = rows) /\ epoch' = epoch
  <1>1. \E c : Goto(t, c)
    BY DEF Execute, ExecuteStat, ExecuteUpdate, ExecutePublish, Mark, ExecuteDerive,
       CreateTable, ExecuteError, ExecuteRaise, Computed
  <1>2. Others(t)
    BY <1>1, GotoFrame
  <1>3. ExecuteRaise(t) => call'[t].pc = "idle" /\ lock' = NoTask
    BY GotoFrame DEF ExecuteRaise, Idle
  <1>4. ExecuteRaise(t) \/ lock' = lock
    BY DEF Execute, ExecuteStat, ExecuteUpdate, ExecutePublish, Mark, ExecuteDerive,
       CreateTable, ExecuteError
  <1>5. call[t].pc \in Critical
    BY DEF Execute, ExecuteStat, ExecuteUpdate, ExecutePublish, Mark, ExecuteDerive,
       CreateTable, ExecuteError, ExecuteRaise, Critical
  <1>6. UNCHANGED <<epoch, registered, sweep>> /\ (Mark(t) \/ rows' = rows)
    BY DEF Execute, ExecuteStat, ExecuteUpdate, ExecutePublish, Mark, ExecuteDerive,
       CreateTable, ExecuteError, ExecuteRaise
  <1> QED BY <1>2, <1>3, <1>4, <1>5, <1>6 DEF WorkFrame

LEMMA StoreFrame ==
  ASSUME TypeInv, NEW t \in Tasks, Store(t)
  PROVE  WorkFrame(t) /\ (InsertRow(t) \/ rows' = rows)
  <1>1. \E c : Goto(t, c)
    BY DEF Store, StoreDeep, StoreMoved, StoreShallow, StoreError, Stamp, PickOpidx,
       InsertRow,
       StorePayload, Deliver, StampEpoch
  <1>2. Others(t)
    BY <1>1, GotoFrame
  <1>3. Deliver(t) => call'[t].pc = "idle" /\ lock' = NoTask
    BY GotoFrame DEF Deliver, Idle
  <1>4. Deliver(t) \/ lock' = lock
    BY DEF Store, StoreDeep, StoreMoved, StoreShallow, StoreError, Stamp, PickOpidx,
       InsertRow,
       StorePayload
  <1>5. call[t].pc \in Critical
    BY DEF Store, StoreDeep, StoreMoved, StoreShallow, StoreError, Stamp, PickOpidx,
       InsertRow,
       StorePayload, Deliver, Critical
  <1>6. UNCHANGED <<registered, sweep>> /\ (InsertRow(t) \/ rows' = rows)
    BY DEF Store, StoreDeep, StoreMoved, StoreShallow, StoreError, Stamp, PickOpidx,
       InsertRow,
       StorePayload, Deliver
  <1> QED BY <1>2, <1>3, <1>4, <1>5, <1>6 DEF WorkFrame

LEMMA WorkFrameHolds ==
  ASSUME TypeInv, NEW t \in Tasks, Work(t)
  PROVE  WorkFrame(t)
  BY ReplayFrame, ExecuteFrame, StoreFrame DEF Work

-----------------------------------------------------------------------------
(* The lock.                                                               *)

LEMMA NextLockHeld ==
  ASSUME TypeInv, LockHeld, [Next]_vars
  PROVE  LockHeld'
  <1>1. ASSUME NEW t \in Tasks, Work(t) PROVE LockHeld'
    BY <1>1, WorkFrameHolds DEF WorkFrame, Others, LockHeld, Critical
  <1>2. ASSUME NEW t \in Tasks, Begin(t) PROVE LockHeld'
    <2>1. Others(t) /\ call'[t].pc = "acquire" /\ lock' = lock
      BY <1>2, BeginMoves DEF Begin
    <2> QED BY <2>1 DEF Others, LockHeld, Critical
  <1>3. ASSUME NEW t \in Tasks, Acquire(t) PROVE LockHeld'
    <2>1. Others(t) /\ lock = NoTask /\ lock' = t
      BY <1>3, GotoFrame DEF Acquire
    <2> QED BY <2>1, TasksAssumption DEF Others, LockHeld
  <1>4. ASSUME NEW t \in Tasks, Fail(t) PROVE LockHeld'
    BY <1>4, GotoFrame DEF Fail, Others, LockHeld, Critical, Idle
  <1>5. ASSUME UNCHANGED <<lock, call>> PROVE LockHeld'
    BY <1>5 DEF LockHeld
  <1> QED
    BY <1>1, <1>2, <1>3, <1>4, <1>5
    DEF Next, SweepRead, SweepCommit, Edit, Quiesce, vars

LEMMA LockHeldAlways == Spec => [](TypeInv /\ LockHeld)
  <1>1. Init => LockHeld
    BY DEF Init, LockHeld, Idle, Critical
  <1> QED BY <1>1, InitType, NextType, NextLockHeld, PTL DEF Spec

(* Two wrappers are never between lookup and return at once, whoever is    *)
(* cancelled or crashes in the middle.                                     *)
THEOREM LockSafety == Spec => []LockHeld
  BY LockHeldAlways, PTL

-----------------------------------------------------------------------------
(* Numbers are read and used under one hold of the lock.                   *)

LEMMA NextOpidxFree ==
  ASSUME TypeInv, LockHeld, OpidxFree, [Next]_vars
  PROVE  OpidxFree'
  <1>1. ASSUME NEW t \in Tasks, Work(t) PROVE OpidxFree'
    <2>1. WorkFrame(t) /\ lock = t
      BY <1>1, WorkFrameHolds DEF WorkFrame, LockHeld
    <2>2. \A u \in Tasks \ {t} : call'[u].pc \notin {"record", "mark"}
      BY <2>1 DEF WorkFrame, Others, LockHeld, Critical
    <2> SUFFICES ASSUME call'[t].pc \in {"record", "mark"}
                 PROVE  \A r \in rows' : r.opidx < call'[t].opidx
      BY <2>2 DEF OpidxFree
    <2>3. PickOpidx(t)
      <3>1. ~Replay(t) /\ ~Execute(t)
        BY ReplayMoves, ExecuteMoves DEF NoNumber
      <3>2. ~StoreTxn(t)
        BY StoreTxnStamps, StampEpochMoves
      <3> QED BY <1>1, <3>1, <3>2, StoreMoves DEF Work, NoNumber
    <2> QED BY <2>3, PickMoves DEF IsNext
  <1>2. ASSUME NEW t \in Tasks, Begin(t) \/ Acquire(t) \/ Fail(t)
        PROVE  OpidxFree'
    <2>1. Others(t) /\ call'[t].pc \notin {"record", "mark"} /\ rows' = rows
      <3>1. CASE Begin(t)
        BY <3>1, BeginMoves DEF Begin
      <3>2. CASE Acquire(t)
        BY <3>2, AcquireMoves DEF NoNumber, Acquire
      <3>3. CASE Fail(t)
        BY <3>3, GotoFrame DEF Fail, Idle
      <3> QED BY <1>2, <3>1, <3>2, <3>3
    <2> QED BY <2>1 DEF OpidxFree, Others
  <1>3. ASSUME rows' \subseteq rows, call' = call PROVE OpidxFree'
    BY <1>3 DEF OpidxFree
  <1> QED
    BY <1>1, <1>2, <1>3
    DEF Next, SweepRead, SweepCommit, Edit, Quiesce, vars

(* A wrapper never inserts under a number that is taken: no entry of the   *)
(* registry collides, for any tasks, sweeps and failures.                  *)
THEOREM OpidxSafety == Spec => []OpidxFree
  <1>1. Init => OpidxFree
    BY DEF Init, OpidxFree, Idle
  <1>2. TypeInv /\ LockHeld /\ OpidxFree /\ [Next]_vars => OpidxFree'
    BY NextOpidxFree
  <1> QED BY <1>1, <1>2, LockHeldAlways, PTL DEF Spec

-----------------------------------------------------------------------------
(* Epochs.  A stamp is read before it is written into the registry, so the *)
(* invariant is about the wrappers' stamps too.                            *)

EpochInv ==
  registered => /\ \A r \in rows : r.epoch <= epoch
                /\ \A t \in Tasks : call[t].epoch <= epoch

LEMMA NextEpochInv ==
  ASSUME TypeInv, LockHeld, EpochInv, [Next]_vars
  PROVE  EpochInv'
  <1>1. epoch \in Nat /\ \A t \in Tasks : call[t].epoch \in Nat
    BY DEF TypeInv, TypeOK, Calls
  <1>2. ASSUME NEW t \in Tasks, Others(t), call'[t].epoch \in {0, call[t].epoch},
               registered' = registered, epoch' = epoch, rows' \subseteq rows
        PROVE  EpochInv'
    BY <1>1, <1>2 DEF EpochInv, Others
  <1>3. ASSUME NEW t \in Tasks, NEW e \in Nat, e <= call[t].epoch,
               NEW x, rows' \subseteq rows \union {x}, x.epoch = e, Others(t),
               call'[t].epoch \in {0, call[t].epoch},
               registered' = registered, epoch' = epoch
        PROVE  EpochInv'
    BY <1>1, <1>3 DEF EpochInv, Others
  <1>4. ASSUME NEW t \in Tasks, Work(t) PROVE EpochInv'
    <2>1. WorkFrame(t)
      BY <1>4, WorkFrameHolds
    <2>2. CASE Replay(t)
      BY <1>2, <2>1, <2>2, ReplayMoves, ReplayFrame DEF WorkFrame, NoNumber
    <2>3. CASE Execute(t)
      <3>1. CASE rows' = rows
        BY <1>2, <2>1, <2>3, <3>1, ExecuteMoves, ExecuteFrame DEF WorkFrame, NoNumber
      <3>2. CASE Mark(t)
        <4> DEFINE x == [NoRow EXCEPT !.opidx = call[t].opidx,
                                      !.key = call[t].key, !.kind = "marker"]
        <4>1. x.epoch = 0
          BY DEF NoRow
        <4>2. rows' \subseteq rows \union {x}
          BY <3>2 DEF Mark
        <4> HIDE DEF x
        <4> QED BY <1>1, <1>3, <2>1, <2>3, <4>1, <4>2, ExecuteMoves, ExecuteFrame
                DEF WorkFrame, NoNumber
      <3> QED BY <2>3, <3>1, <3>2, ExecuteFrame
    <2>4. CASE StoreTxn(t)
      <3>1. rows' = rows /\ \/ epoch' = epoch + 1 /\ call'[t].epoch \in {0, epoch'}
                            \/ epoch' = epoch /\ call'[t].epoch \in {0, CurrentEpoch}
        BY <2>4, StoreTxnStamps, StampEpochMoves
        DEF StoreTxn, StoreDeep, StoreMoved, StoreShallow, StoreError
      <3> SUFFICES ASSUME registered
                   PROVE  /\ \A r \in rows : r.epoch <= epoch'
                          /\ \A u \in Tasks : call'[u].epoch <= epoch'
        BY <2>1, <3>1 DEF EpochInv, WorkFrame
      <3>2. CurrentEpoch = epoch
        BY DEF CurrentEpoch
      <3>3. call'[t].epoch <= epoch'
        BY <1>1, <3>1, <3>2
      <3>4. /\ \A r \in rows : r.epoch \in Nat /\ r.epoch <= epoch
            /\ \A u \in Tasks \ {t} : /\ call'[u].epoch \in Nat
                                      /\ call'[u].epoch <= epoch
        BY <1>1, <2>1 DEF EpochInv, WorkFrame, Others, TypeInv, TypeOK, Rows
      <3>5. epoch' \in Nat /\ epoch <= epoch'
        BY <1>1, <3>1
      <3> QED BY <1>1, <3>3, <3>4, <3>5
    <2>5. CASE PickOpidx(t)
      BY <1>2, <2>1, <2>5, PickMoves DEF WorkFrame
    <2>6. CASE Store(t) /\ ~StoreTxn(t) /\ ~PickOpidx(t)
      <3>1. CASE rows' = rows
        BY <1>2, <2>1, <2>6, <3>1, StoreMoves DEF WorkFrame, NoNumber
      <3>2. CASE InsertRow(t)
        <4> DEFINE c == call[t]
                   x == [opidx |-> c.opidx, key |-> c.key, deep |-> c.deep,
                         kind |-> c.kind, fp |-> c.fp, epoch |-> c.epoch,
                         table |-> c.table]
        <4>1. x.epoch = call[t].epoch /\ rows' \subseteq rows \union {x}
          BY <3>2 DEF InsertRow
        <4> HIDE DEF x
        <4> QED BY <1>1, <1>3, <2>1, <2>6, <4>1, StoreMoves DEF WorkFrame, NoNumber
      <3> QED BY <2>6, <3>1, <3>2, StoreFrame
    <2> QED BY <1>4, <2>2, <2>3, <2>4, <2>5, <2>6 DEF Work
  <1>5. ASSUME NEW t \in Tasks, Begin(t) \/ Acquire(t) \/ Fail(t) PROVE EpochInv'
    <2>1. CASE Begin(t)
      BY <1>2, <2>1, BeginMoves DEF Begin
    <2>2. CASE Acquire(t)
      BY <1>2, <2>2, AcquireMoves DEF NoNumber, Acquire
    <2>3. CASE Fail(t)
      BY <1>2, <2>3, GotoFrame DEF Fail, Idle
    <2> QED BY <1>5, <2>1, <2>2, <2>3
  <1>6. ASSUME rows' \subseteq rows, registered' => registered,
               UNCHANGED <<epoch, call>>
        PROVE  EpochInv'
    BY <1>6 DEF EpochInv
  <1>7. ASSUME NEW s \in Sweepers, SweepCommit(s) PROVE EpochInv'
    <2>1. rows' \subseteq rows /\ UNCHANGED <<epoch, call>>
      BY <1>7 DEF SweepCommit
    <2>2. registered' => registered
      BY <1>7, Zenon DEF SweepCommit
    <2> QED BY <1>6, <2>1, <2>2
  <1>8. ASSUME UNCHANGED <<rows, registered, epoch, call>> PROVE EpochInv'
    BY <1>6, <1>8
  <1> QED
    BY <1>4, <1>5, <1>7, <1>8 DEF Next, SweepRead, Edit, Quiesce, vars

(* An entry of a registered dataset is never stamped ahead of the dataset, *)
(* so every later bump makes it stale.                                     *)
THEOREM EpochSafety == Spec => []EpochNotAhead
  <1>1. Init => EpochInv
    BY DEF Init, EpochInv, Idle
  <1>2. TypeInv /\ LockHeld /\ EpochInv /\ [Next]_vars => EpochInv'
    BY NextEpochInv
  <1>3. EpochInv => EpochNotAhead
    BY DEF EpochInv, EpochNotAhead
  <1> QED BY <1>1, <1>2, <1>3, LockHeldAlways, PTL DEF Spec

=============================================================================
