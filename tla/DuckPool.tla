------------------------------ MODULE DuckPool ------------------------------
(***************************************************************************)
(* DuckDBPool (db_manager/connection/pool.py): every coroutine uses the    *)
(* one connection, an asyncio.Lock serialises them, and transaction()      *)
(* holds that lock from BEGIN to COMMIT or ROLLBACK.                       *)
(*                                                                         *)
(* The connection executes a statement without giving up the event loop,   *)
(* so a step is what happens between two waits for the lock.  A statement  *)
(* is a number; the connection adds it to its open transaction, whoever    *)
(* opened it, or commits it at once.                                       *)
(***************************************************************************)
EXTENDS Naturals

CONSTANTS
  Tasks,      \* coroutines
  MaxDepth,   \* how deep transaction() is nested: 2 in the code
  MaxBlocks,  \* bound on the blocks of a behaviour
  MaxWrites,  \* bound on the statements of a behaviour
  MayFail,    \* BEGIN, COMMIT and statements may fail, waits be cancelled
  NoTask

ASSUME TasksAssumption == NoTask \notin Tasks
ASSUME BoundsAssumption ==
  /\ MaxDepth \in Nat
  /\ MaxBlocks \in Nat
  /\ MaxWrites \in Nat
  /\ MayFail \in BOOLEAN

VARIABLES
  holder,   \* the task that holds _lock: also _lock_owner
  owner,    \* _txn_owner
  pc,       \* what each task waits for the lock to do
  arg,      \* the statement it waits to execute
  depth,    \* the transaction() blocks each task is in
  real,     \* which of them executed BEGIN; 0: none
  txn,      \* has the connection a transaction open?
  pending,  \* the statements in it
  store,    \* the statements that are committed
  wrote,    \* statements each task executed inside its real block (history)
  failed,   \* tasks on which BEGIN has failed (history)
  begun,    \* blocks so far
  issued    \* statements so far

vars == <<holder, owner, pc, arg, depth, real, txn, pending, store, wrote,
          failed, begun, issued>>

Writes == 1 .. MaxWrites

Init ==
  /\ holder = NoTask
  /\ owner = NoTask
  /\ pc = [t \in Tasks |-> "run"]
  /\ arg = [t \in Tasks |-> 0]
  /\ depth = [t \in Tasks |-> 0]
  /\ real = [t \in Tasks |-> 0]
  /\ txn = FALSE
  /\ pending = {}
  /\ store = {}
  /\ wrote = [t \in Tasks |-> {}]
  /\ failed = {}
  /\ begun = 0
  /\ issued = 0

-----------------------------------------------------------------------------
\* Mutant of Admitted: nobody waits for the lock.
AdmittedAll(t) == TRUE

\* _guarded: the lock is free, or the task has it already.
Admitted(t) == holder \in {NoTask, t}

\* A nested transaction() finds its own task in _txn_owner and joins.
Join(t) ==
  /\ pc[t] = "run"
  /\ owner = t
  /\ depth[t] < MaxDepth /\ begun < MaxBlocks
  /\ depth' = [depth EXCEPT ![t] = @ + 1]
  /\ begun' = begun + 1
  /\ UNCHANGED <<holder, owner, pc, arg, real, txn, pending, store, wrote,
                 failed, issued>>

\* Any other one goes for the lock.
AskBlock(t) ==
  /\ pc[t] = "run"
  /\ owner # t
  /\ depth[t] < MaxDepth /\ begun < MaxBlocks
  /\ pc' = [pc EXCEPT ![t] = "block"]
  /\ begun' = begun + 1
  /\ UNCHANGED <<holder, owner, arg, depth, real, txn, pending, store, wrote,
                 failed, issued>>

\* The lock is taken, the owner set, BEGIN executed.
OpenBlock(t) ==
  /\ pc[t] = "block"
  /\ Admitted(t)
  /\ holder' = t
  /\ owner' = t
  /\ txn' = TRUE
  /\ pc' = [pc EXCEPT ![t] = "run"]
  /\ depth' = [depth EXCEPT ![t] = @ + 1]
  /\ real' = [real EXCEPT ![t] = depth[t] + 1]
  /\ UNCHANGED <<arg, pending, store, wrote, failed, begun, issued>>

\* Mutant of BeginFails: the lock is kept.
BeginFailsHolding(t) ==
  /\ MayFail
  /\ pc[t] = "block"
  /\ holder = NoTask
  /\ holder' = t
  /\ pc' = [pc EXCEPT ![t] = "run"]
  /\ UNCHANGED <<owner, arg, depth, real, txn, pending, store, wrote,
                 failed, begun, issued>>

\* BEGIN raises.  It stands before the try that resets _txn_owner: the lock
\* is released and the owner stays.
BeginFails(t) ==
  /\ MayFail
  /\ pc[t] = "block"
  /\ holder = NoTask
  /\ owner' = t
  /\ failed' = failed \union {t}
  /\ pc' = [pc EXCEPT ![t] = "run"]
  /\ UNCHANGED <<holder, arg, depth, real, txn, pending, store, wrote, begun,
                 issued>>

\* A statement goes for the lock.
AskStatement(t) ==
  /\ pc[t] = "run"
  /\ issued < MaxWrites
  /\ pc' = [pc EXCEPT ![t] = "statement"]
  /\ arg' = [arg EXCEPT ![t] = issued + 1]
  /\ issued' = issued + 1
  /\ UNCHANGED <<holder, owner, depth, real, txn, pending, store, wrote,
                 failed, begun>>

\* The connection executes it.  The lock is given back, unless it was the
\* block's.
Execute(t) ==
  /\ pc[t] = "statement"
  /\ Admitted(t)
  /\ IF txn
     THEN pending' = pending \union {arg[t]} /\ UNCHANGED store
     ELSE store' = store \union {arg[t]} /\ UNCHANGED pending
  /\ wrote' = [wrote EXCEPT ![t] = IF real[t] # 0 THEN @ \union {arg[t]} ELSE @]
  /\ pc' = [pc EXCEPT ![t] = "run"]
  /\ arg' = [arg EXCEPT ![t] = 0]
  /\ UNCHANGED <<holder, owner, depth, real, txn, failed, begun, issued>>

\* The wait is cancelled, or the statement raises.
Abandon(t) ==
  /\ MayFail
  /\ pc[t] # "run"
  /\ pc' = [pc EXCEPT ![t] = "run"]
  /\ arg' = [arg EXCEPT ![t] = 0]
  /\ UNCHANGED <<holder, owner, depth, real, txn, pending, store, wrote,
                 failed, begun, issued>>

\* Mutant of LeaveJoined: the block that executed BEGIN leaves without more.
LeaveSilently(t) ==
  /\ pc[t] = "run"
  /\ depth[t] > 0
  /\ depth' = [depth EXCEPT ![t] = @ - 1]
  /\ UNCHANGED <<holder, owner, pc, arg, real, txn, pending, store, wrote,
                 failed, begun, issued>>

\* A block that joined ends: nothing is executed.
LeaveJoined(t) ==
  /\ pc[t] = "run"
  /\ depth[t] > real[t]
  /\ depth' = [depth EXCEPT ![t] = @ - 1]
  /\ UNCHANGED <<holder, owner, pc, arg, real, txn, pending, store, wrote,
                 failed, begun, issued>>

\* Mutant of CloseBlock: the owner is not reset.
CloseOwning(t) ==
  /\ pc[t] = "run"
  /\ real[t] # 0 /\ depth[t] = real[t]
  /\ txn' = FALSE
  /\ pending' = {}
  /\ holder' = NoTask
  /\ depth' = [depth EXCEPT ![t] = @ - 1]
  /\ real' = [real EXCEPT ![t] = 0]
  /\ wrote' = [wrote EXCEPT ![t] = {}]
  /\ UNCHANGED <<owner, pc, arg, failed, begun, issued>>

\* The transaction is over, the owner reset, the lock given back.
CloseBlock(t) ==
  /\ pc[t] = "run"
  /\ real[t] # 0 /\ depth[t] = real[t]
  /\ txn' = FALSE
  /\ pending' = {}
  /\ owner' = NoTask
  /\ holder' = NoTask
  /\ depth' = [depth EXCEPT ![t] = @ - 1]
  /\ real' = [real EXCEPT ![t] = 0]
  /\ wrote' = [wrote EXCEPT ![t] = {}]
  /\ UNCHANGED <<pc, arg, failed, begun, issued>>

Commit(t) ==
  /\ CloseBlock(t)
  /\ store' = store \union pending

\* Mutant of Rollback: no ROLLBACK is executed.
RollbackForgotten(t) ==
  /\ pc[t] = "run"
  /\ real[t] # 0 /\ depth[t] = real[t]
  /\ owner' = NoTask
  /\ holder' = NoTask
  /\ depth' = [depth EXCEPT ![t] = @ - 1]
  /\ real' = [real EXCEPT ![t] = 0]
  /\ wrote' = [wrote EXCEPT ![t] = {}]
  /\ UNCHANGED <<pc, arg, txn, pending, store, failed, begun, issued>>

\* The body raised or was cancelled; or COMMIT did, and the connection rolls
\* back.  ROLLBACK can raise as well, when the connection has no transaction any
\* more: nothing is left to roll back, and the finally clauses do the same.
Rollback(t) ==
  /\ CloseBlock(t)
  /\ UNCHANGED store

\* Every task has left its blocks and the bounds are used up.
Quiesce ==
  /\ \A t \in Tasks : pc[t] = "run" /\ depth[t] = 0
  /\ UNCHANGED vars

Leave(t) == LeaveJoined(t) \/ Commit(t) \/ Rollback(t)
Serve(t) == OpenBlock(t) \/ BeginFails(t) \/ Execute(t)

Next ==
  \/ \E t \in Tasks : Join(t) \/ AskBlock(t) \/ AskStatement(t)
                      \/ Serve(t) \/ Abandon(t) \/ Leave(t)
  \/ Quiesce

Spec == Init /\ [][Next]_vars

\* A block's body ends, and asyncio.Lock serves its waiters in order.
FairSpec == Spec /\ \A t \in Tasks : WF_vars(Leave(t)) /\ SF_vars(Serve(t))

-----------------------------------------------------------------------------
(* Properties.                                                             *)

TypeOK ==
  /\ holder \in Tasks \union {NoTask}
  /\ owner \in Tasks \union {NoTask}
  /\ pc \in [Tasks -> {"run", "block", "statement"}]
  /\ arg \in [Tasks -> Writes \union {0}]
  /\ \A t \in Tasks : pc[t] = "statement" => arg[t] # 0
  /\ depth \in [Tasks -> Nat]
  /\ real \in [Tasks -> Nat]
  /\ \A t \in Tasks : real[t] <= depth[t]
  /\ txn \in BOOLEAN
  /\ pending \subseteq Writes
  /\ store \subseteq Writes
  /\ wrote \in [Tasks -> SUBSET Writes]
  /\ failed \subseteq Tasks
  /\ begun \in Nat
  /\ issued \in 0 .. MaxWrites

\* The connection has a transaction open exactly while a task is inside the
\* block that opened it, and that task holds the lock and is the owner: no
\* path through a block, a failure or a cancellation leaves the transaction
\* or the lock behind (pool.py:63-82).  The owner is left behind by a BEGIN
\* that fails (72-73), and by nothing else; a task on which none has failed
\* is in a block only while the transaction of that block is open.
TransactionHeld ==
  /\ txn <=> holder # NoTask
  /\ \A t \in Tasks : real[t] # 0 <=> holder = t
  /\ holder # NoTask => owner = holder
  /\ \A t \in Tasks \ failed :
       /\ owner = t => holder = t
       /\ depth[t] > 0 <=> holder = t

\* What the open transaction contains is what its block executed: nobody
\* else's statement ended up in it, none of its own went around it.
PendingOwned ==
  /\ holder = NoTask => pending = {}
  /\ \A t \in Tasks : wrote[t] = IF holder = t THEN pending ELSE {}

\* The docstring of transaction() (pool.py:65): every statement inside
\* commits or rolls back together, and nobody sees a part of it.
Blocks == INSTANCE AtomicStore WITH open <- {t \in Tasks : real[t] # 0}
BlocksAtomic == Blocks!Spec

\* Nobody waits for the lock forever and every block ends, also when some
\* of them fail: the lock is never kept by a task that is gone.
EveryoneServed == \A t \in Tasks :
  /\ pc[t] # "run" ~> pc[t] = "run"
  /\ depth[t] > 0 ~> depth[t] = 0

=============================================================================
