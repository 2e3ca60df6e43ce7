--------------------------- MODULE DuckPoolProofs ---------------------------
(***************************************************************************)
(* The pool of DuckDB for any number of tasks, blocks and statements: its  *)
(* types, who holds what while a transaction is open, and that it          *)
(* implements AtomicStore.                                                 *)
(***************************************************************************)
EXTENDS DuckPool, TLAPS

USE TasksAssumption, BoundsAssumption DEF TasksAssumption, BoundsAssumption

-----------------------------------------------------------------------------
(* Types.                                                                  *)

\* Every action keeps the types; the statements that wait for the lock are
\* among those that were issued.
LEMMA TypeStep == TypeOK /\ [Next]_vars => TypeOK'
<1> SUFFICES ASSUME TypeOK, [Next]_vars PROVE TypeOK'
  OBVIOUS
<1> USE DEF TypeOK, Writes
<1>1. ASSUME NEW t \in Tasks, Join(t) PROVE TypeOK'
  BY <1>1 DEF Join
<1>2. ASSUME NEW t \in Tasks, AskBlock(t) PROVE TypeOK'
  BY <1>2 DEF AskBlock
<1>3. ASSUME NEW t \in Tasks, AskStatement(t) PROVE TypeOK'
  BY <1>3 DEF AskStatement
<1>4. ASSUME NEW t \in Tasks, OpenBlock(t) PROVE TypeOK'
  BY <1>4 DEF OpenBlock
<1>5. ASSUME NEW t \in Tasks, BeginFails(t) PROVE TypeOK'
  BY <1>5 DEF BeginFails
<1>6. ASSUME NEW t \in Tasks, Execute(t) PROVE TypeOK'
  <2>1. arg[t] \in Writes
    BY <1>6 DEF Execute
  <2>2. pending' \subseteq Writes /\ store' \subseteq Writes
    BY <1>6, <2>1 DEF Execute
  <2>3. wrote' \in [Tasks -> SUBSET Writes]
    BY <1>6, <2>1 DEF Execute
  <2>4. \A u \in Tasks : pc'[u] = "statement" => arg'[u] # 0
    BY <1>6 DEF Execute
  <2> QED
    BY <1>6, <2>2, <2>3, <2>4 DEF Execute
<1>7. ASSUME NEW t \in Tasks, Abandon(t) PROVE TypeOK'
  BY <1>7 DEF Abandon
<1>8. ASSUME NEW t \in Tasks, LeaveJoined(t) PROVE TypeOK'
  BY <1>8 DEF LeaveJoined
<1>9. ASSUME NEW t \in Tasks, Commit(t) \/ Rollback(t) PROVE TypeOK'
  <2>1. CloseBlock(t) /\ store' \in {store, store \union pending}
    BY <1>9 DEF Commit, Rollback
  <2>2. depth' \in [Tasks -> Nat] /\ real' \in [Tasks -> Nat]
    BY <2>1 DEF CloseBlock
  <2>3. \A u \in Tasks : real'[u] <= depth'[u]
    BY <2>1 DEF CloseBlock
  <2>4. wrote' \in [Tasks -> SUBSET Writes]
    BY <2>1 DEF CloseBlock
  <2> QED
    BY <2>1, <2>2, <2>3, <2>4 DEF CloseBlock
<1>10. CASE UNCHANGED vars
  BY <1>10 DEF vars
<1> QED
  BY <1>1, <1>2, <1>3, <1>4, <1>5, <1>6, <1>7, <1>8, <1>9, <1>10
     DEF Next, Serve, Leave, Quiesce

\* The variables of the pool stay within their types.
THEOREM PoolTypes == Spec => []TypeOK
<1>1. Init => TypeOK
  <2> SUFFICES ASSUME Init PROVE TypeOK
    OBVIOUS
  <2>1. issued \in 0 .. MaxWrites
    BY DEF Init
  <2>2. wrote \in [Tasks -> SUBSET Writes]
    BY DEF Init
  <2>3. depth \in [Tasks -> Nat] /\ real \in [Tasks -> Nat]
    BY DEF Init
  <2>6. \A t \in Tasks : real[t] <= depth[t]
    <3>1. \A t \in Tasks : real[t] = 0 /\ depth[t] = 0
      BY DEF Init
    <3> SUFFICES ASSUME NEW t \in Tasks PROVE real[t] <= depth[t]
      OBVIOUS
    <3> QED
      BY <3>1
  <2>4. /\ pc \in [Tasks -> {"run", "block", "statement"}]
        /\ \A t \in Tasks : pc[t] = "statement" => arg[t] # 0
    BY DEF Init
  <2>5. arg \in [Tasks -> Writes \union {0}]
    BY DEF Init
  <2>7. /\ holder \in Tasks \union {NoTask} /\ owner \in Tasks \union {NoTask}
        /\ txn \in BOOLEAN /\ pending \subseteq Writes /\ store \subseteq Writes
        /\ begun \in Nat /\ failed \subseteq Tasks
    BY DEF Init
  <2> QED
    BY <2>1, <2>2, <2>3, <2>4, <2>5, <2>6, <2>7 DEF TypeOK
<1> QED
  BY <1>1, TypeStep, PTL DEF Spec

-----------------------------------------------------------------------------
(* Who holds what.                                                         *)

\* A task that waits to open a block is in none that is open, and one on which
\* no BEGIN has failed opens only its outermost block.
Outermost ==
  \A t \in Tasks :
    /\ pc[t] = "block" => holder # t
    /\ t \notin failed => real[t] \in {0, 1}

\* The transaction, the lock and the block begin and end together, and what is
\* pending is what the block executed.
Held == TransactionHeld /\ PendingOwned /\ Outermost

\* A task enters a block of its own only through a free lock, and while it
\* is inside nobody else executes anything.
LEMMA HeldStep == TypeOK /\ Held /\ [Next]_vars => Held'
<1> SUFFICES ASSUME TypeOK, Held, [Next]_vars PROVE Held'
  OBVIOUS
<1> USE DEF TypeOK, Held, TransactionHeld, PendingOwned, Outermost
<1>1. ASSUME NEW t \in Tasks, Join(t) PROVE Held'
  BY <1>1 DEF Join
<1>2. ASSUME NEW t \in Tasks, AskBlock(t) PROVE Held'
  BY <1>2 DEF AskBlock
<1>3. ASSUME NEW t \in Tasks, AskStatement(t) PROVE Held'
  BY <1>3 DEF AskStatement
<1>4. ASSUME NEW t \in Tasks, OpenBlock(t) PROVE Held'
  <2>1. depth[t] + 1 # 0 /\ holder = NoTask /\ holder' = t
    BY <1>4 DEF OpenBlock, Admitted
  <2>2. \A u \in Tasks : wrote[u] = IF holder' = u THEN pending ELSE {}
    BY <1>4, <2>1 DEF OpenBlock
  <2>3. \A u \in Tasks : real'[u] # 0 <=> holder' = u
    BY <1>4, <2>1 DEF OpenBlock
  <2>4. \A u \in Tasks \ failed :
          (owner' = u => holder' = u) /\ (depth'[u] > 0 <=> holder' = u)
    BY <1>4, <2>1 DEF OpenBlock
  <2>5. \A u \in Tasks : u \notin failed => real'[u] \in {0, 1}
    BY <1>4, <2>1 DEF OpenBlock
  <2>6. \A u \in Tasks : pc'[u] = "block" => holder' # u
    BY <1>4, <2>1 DEF OpenBlock
  <2> QED
    BY <1>4, <2>1, <2>2, <2>3, <2>4, <2>5, <2>6 DEF OpenBlock
<1>5. ASSUME NEW t \in Tasks, BeginFails(t) PROVE Held'
  BY <1>5 DEF BeginFails
<1>6. ASSUME NEW t \in Tasks, Execute(t) PROVE Held'
  <2>1. CASE holder = t
    BY <1>6, <2>1 DEF Execute
  <2>2. CASE holder = NoTask
    BY <1>6, <2>2 DEF Execute
  <2> QED
    BY <1>6, <2>1, <2>2 DEF Execute, Admitted
<1>7. ASSUME NEW t \in Tasks, Abandon(t) PROVE Held'
  BY <1>7 DEF Abandon
<1>8. ASSUME NEW t \in Tasks, LeaveJoined(t) PROVE Held'
  <2>1. \A u \in Tasks \ failed : depth'[u] > 0 <=> holder = u
    BY <1>8 DEF LeaveJoined
  <2> QED
    BY <1>8, <2>1 DEF LeaveJoined
<1>9. ASSUME NEW t \in Tasks, Commit(t) \/ Rollback(t) PROVE Held'
  <2>1. CloseBlock(t) /\ holder = t
    BY <1>9 DEF Commit, Rollback, CloseBlock
  <2>2. \A u \in Tasks : real'[u] = 0 /\ wrote'[u] = {}
    BY <2>1 DEF CloseBlock
  <2>3. \A u \in Tasks \ failed : ~(depth'[u] > 0)
    BY <2>1 DEF CloseBlock
  <2> QED
    BY <2>1, <2>2, <2>3 DEF CloseBlock
<1>10. CASE UNCHANGED vars
  BY <1>10 DEF vars
<1> QED
  BY <1>1, <1>2, <1>3, <1>4, <1>5, <1>6, <1>7, <1>8, <1>9, <1>10
     DEF Next, Serve, Leave, Quiesce

LEMMA HeldAlways == Spec => [](TypeOK /\ Held)
<1>1. Init => Held
  BY DEF Init, Held, TransactionHeld, PendingOwned, Outermost
<1> QED
  BY <1>1, PoolTypes, HeldStep, PTL DEF Spec

\* A transaction is open exactly while a task is inside the block that opened
\* it, holding the lock; only a BEGIN that failed leaves an owner without one,
\* and only a task on which one has failed is in a block without one.
THEOREM TransactionSafety == Spec => []TransactionHeld
BY HeldAlways, PTL DEF Held

\* The open transaction contains what its block executed and nothing else.
THEOREM PendingSafety == Spec => []PendingOwned
BY HeldAlways, PTL DEF Held

-----------------------------------------------------------------------------
(* The pool implements AtomicStore.                                        *)

\* Every step is a step of AtomicStore or changes nothing of it.
LEMMA BlocksStep ==
  TypeOK /\ Held /\ [Next]_vars => [Blocks!Next]_(Blocks!vars)
<1> SUFFICES ASSUME TypeOK, Held, [Next]_vars
             PROVE [Blocks!Next]_(Blocks!vars)
  OBVIOUS
<1> DEFINE open == {t \in Tasks : real[t] # 0}
<1> USE DEF TypeOK, Held, TransactionHeld, PendingOwned
<1>1. ASSUME NEW t \in Tasks,
             Join(t) \/ AskBlock(t) \/ AskStatement(t) \/ BeginFails(t)
             \/ Abandon(t) \/ LeaveJoined(t)
      PROVE UNCHANGED Blocks!vars
  BY <1>1 DEF Join, AskBlock, AskStatement, BeginFails, Abandon, LeaveJoined,
              Blocks!vars
<1>2. ASSUME NEW t \in Tasks, OpenBlock(t)
      PROVE Blocks!Enter(t) \/ UNCHANGED Blocks!vars
  <2>1. open' = open \union {t}
    <3>1. \A u \in Tasks : real'[u] # 0 <=> real[u] # 0 \/ u = t
      BY <1>2 DEF OpenBlock
    <3> QED
      BY <3>1, <1>2 DEF OpenBlock
  <2>2. CASE holder = NoTask
    <3>1. t \notin open
      BY <2>2
    <3> QED
      BY <1>2, <2>1, <3>1 DEF OpenBlock, Blocks!Enter
  <2>3. CASE holder = t
    <3>1. t \in open
      BY <2>3
    <3> QED
      BY <1>2, <2>1, <3>1 DEF OpenBlock, Blocks!vars
  <2> QED
    BY <1>2, <2>2, <2>3 DEF OpenBlock, Admitted
<1>3. ASSUME NEW t \in Tasks, Execute(t)
      PROVE \E w \in Writes : Blocks!PutInside(t, w) \/ Blocks!PutOutside(t, w)
  <2>1. arg[t] \in Writes
    BY <1>3 DEF Execute
  <2>2. open' = open
    BY <1>3 DEF Execute
  <2>3. CASE holder = t
    <3>1. t \in open
      BY <2>3
    <3>2. Blocks!PutInside(t, arg[t])
      BY <1>3, <2>2, <2>3, <3>1 DEF Execute, Blocks!PutInside
    <3> QED
      BY <2>1, <3>2
  <2>4. CASE holder = NoTask
    <3>1. t \notin open
      BY <2>4
    <3>2. wrote' = wrote
      BY <1>3, <2>4 DEF Execute
    <3>3. Blocks!PutOutside(t, arg[t])
      BY <1>3, <2>2, <2>4, <3>1, <3>2 DEF Execute, Blocks!PutOutside
    <3> QED
      BY <2>1, <3>3
  <2> QED
    BY <1>3, <2>3, <2>4 DEF Execute, Admitted
<1>4. ASSUME NEW t \in Tasks, Commit(t) \/ Rollback(t)
      PROVE Blocks!Leave(t)
  <2>1. t \in open /\ holder = t /\ wrote[t] = pending
    BY <1>4 DEF Commit, Rollback, CloseBlock
  <2>2. open' = open \ {t}
    BY <1>4, <2>1 DEF Commit, Rollback, CloseBlock
  <2>3. store' \in {store, store \union wrote[t]}
    BY <1>4, <2>1 DEF Commit, Rollback
  <2>4. wrote' = [wrote EXCEPT ![t] = {}]
    BY <1>4 DEF Commit, Rollback, CloseBlock
  <2> QED
    BY <2>1, <2>2, <2>3, <2>4 DEF Blocks!Leave
<1>5. CASE UNCHANGED vars
  BY <1>5 DEF vars, Blocks!vars
<1> QED
  BY <1>1, <1>2, <1>3, <1>4, <1>5
     DEF Next, Serve, Leave, Quiesce, Blocks!Next

\* transaction() on DuckDB keeps its docstring's promise: a block arrives in
\* the store as a whole or not at all, whoever runs next to it and whatever
\* fails.
THEOREM BlocksSafety == Spec => BlocksAtomic
<1>1. Init => Blocks!Init
  BY DEF Init, Blocks!Init
<1> QED
  BY <1>1, HeldAlways, BlocksStep, PTL DEF Spec, BlocksAtomic, Blocks!Spec

=============================================================================
