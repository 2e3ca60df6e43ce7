------------------------------- MODULE PgPool -------------------------------
(***************************************************************************)
(* PostgresPool (db_manager/connection/pool.py): a pool of connections,    *)
(* and one slot (_txn_conn, _txn_owner) for "the" open transaction block.  *)
(* A statement of the task in the slot runs on the slot's connection; any  *)
(* other borrows a connection and commits by itself.                       *)
(*                                                                         *)
(* A step runs from one await to the next: waiting for a connection,       *)
(* BEGIN, a statement, COMMIT.  The connections and the server are those   *)
(* of asyncpg and PostgreSQL: a connection knows the transaction it is in. *)
(***************************************************************************)
EXTENDS Naturals

CONSTANTS
  Tasks,      \* coroutines
  Conns,      \* the connections of the pool: max_size, 4 in the code
  MaxDepth,   \* how deep transaction() is nested: 2 in the code
  MaxBlocks,  \* bound on the blocks of a behaviour
  MaxWrites,  \* bound on the statements of a behaviour
  MayFail,    \* statements may fail and waits be cancelled
  NoTask, NoConn

ASSUME NullAssumption == NoTask \notin Tasks /\ NoConn \notin Conns
ASSUME BoundsAssumption ==
  /\ MaxDepth \in Nat
  /\ MaxBlocks \in Nat
  /\ MaxWrites \in Nat
  /\ MayFail \in BOOLEAN

VARIABLES
  user,     \* the task a connection is acquired by
  level,    \* the block it was acquired for; 0: none, or not begun
  pending,  \* what its open transaction contains
  slot,     \* _txn_conn and _txn_owner
  pc,       \* what each task awaits
  arg,      \* the statement it is about to execute
  owned,    \* the local of that name: the connection the slot had for it
  depth,    \* the transaction() blocks each task is in
  store,    \* the statements that are committed
  wrote,    \* statements of the outermost block of each task (history)
  met,      \* has that block overlapped one of another task? (history)
  undone,   \* statements of blocks that were rolled back (history)
  begun,    \* blocks so far
  issued    \* statements so far

vars == <<user, level, pending, slot, pc, arg, owned, depth, store, wrote,
          met, undone, begun, issued>>

Statements == [by : Tasks, n : 1 .. MaxWrites]
NoSlot == [conn |-> NoConn, owner |-> NoTask]

Init ==
  /\ user = [c \in Conns |-> NoTask]
  /\ level = [c \in Conns |-> 0]
  /\ pending = [c \in Conns |-> {}]
  /\ slot = NoSlot
  /\ pc = [t \in Tasks |-> "run"]
  /\ arg = [t \in Tasks |-> 0]
  /\ owned = [t \in Tasks |-> NoConn]
  /\ depth = [t \in Tasks |-> 0]
  /\ store = {}
  /\ wrote = [t \in Tasks |-> {}]
  /\ met = [t \in Tasks |-> FALSE]
  /\ undone = {}
  /\ begun = 0
  /\ issued = 0

-----------------------------------------------------------------------------
\* Is connection c held by a block of task t?
InBlock(c, t) == user[c] = t /\ level[c] > 0

\* Did the block task t is in acquire c?
BlockConn(c, t) == InBlock(c, t) /\ level[c] = depth[t]

\* Mutant of OwnedConn: whoever asks gets the connection in the slot.
AnyOwnedConn(t) == slot.conn

\* _txn_conn_for_current: the slot's connection, for the task in the slot.
OwnedConn(t) == IF slot.owner = t THEN slot.conn ELSE NoConn

\* The statement task t is about to execute.
Text(t) == [by |-> t, n |-> arg[t]]

\* A nested transaction() finds its own task in the slot and joins.
Join(t) ==
  /\ pc[t] = "run"
  /\ slot.owner = t
  /\ depth[t] < MaxDepth /\ begun < MaxBlocks
  /\ depth' = [depth EXCEPT ![t] = @ + 1]
  /\ begun' = begun + 1
  /\ UNCHANGED <<user, level, pending, slot, pc, arg, owned, store, wrote,
                 met, undone, issued>>

\* Mutant of AskBlock: a nested block does not join.
AskBlockAlways(t) ==
  /\ pc[t] = "run"
  /\ depth[t] < MaxDepth /\ begun < MaxBlocks
  /\ pc' = [pc EXCEPT ![t] = "block"]
  /\ begun' = begun + 1
  /\ UNCHANGED <<user, level, pending, slot, arg, owned, depth, store, wrote,
                 met, undone, issued>>

\* Any other one waits for a connection.
AskBlock(t) ==
  /\ pc[t] = "run"
  /\ slot.owner # t
  /\ depth[t] < MaxDepth /\ begun < MaxBlocks
  /\ pc' = [pc EXCEPT ![t] = "block"]
  /\ begun' = begun + 1
  /\ UNCHANGED <<user, level, pending, slot, arg, owned, depth, store, wrote,
                 met, undone, issued>>

\* Mutant of AskStatement: it never looks into the slot.
AskStatementBlind(t) ==
  /\ pc[t] = "run"
  /\ issued < MaxWrites
  /\ pc' = [pc EXCEPT ![t] = "statement"]
  /\ arg' = [arg EXCEPT ![t] = issued + 1]
  /\ issued' = issued + 1
  /\ UNCHANGED <<user, level, pending, slot, owned, depth, store, wrote, met,
                 undone, begun>>

\* A statement looks into the slot: it runs there, or waits for a connection.
AskStatement(t) ==
  /\ pc[t] = "run"
  /\ issued < MaxWrites
  /\ pc' = [pc EXCEPT ![t] = IF OwnedConn(t) # NoConn THEN "owned" ELSE "statement"]
  /\ arg' = [arg EXCEPT ![t] = issued + 1]
  /\ owned' = [owned EXCEPT ![t] = OwnedConn(t)]
  /\ issued' = issued + 1
  /\ UNCHANGED <<user, level, pending, slot, depth, store, wrote, met,
                 undone, begun>>

\* The pool gives a free connection to a task that waits for one.
Acquire(t, c) ==
  /\ pc[t] \in {"block", "statement"}
  /\ user[c] = NoTask
  /\ user' = [user EXCEPT ![c] = t]
  /\ pc' = [pc EXCEPT ![t] = IF pc[t] = "block" THEN "begin" ELSE "auto"]
  /\ UNCHANGED <<level, pending, slot, arg, owned, depth, store, wrote, met,
                 undone, begun, issued>>

\* BEGIN is answered.  The slot now belongs to this block, whatever it held.
BeginBlock(t, c) ==
  LET others == {u \in Tasks \ {t} : \E d \in Conns : InBlock(d, u)} IN
  /\ pc[t] = "begin"
  /\ user[c] = t /\ level[c] = 0
  /\ level' = [level EXCEPT ![c] = depth[t] + 1]
  /\ depth' = [depth EXCEPT ![t] = @ + 1]
  /\ slot' = [conn |-> c, owner |-> t]
  /\ met' = [u \in Tasks |-> \/ met[u]
                             \/ u = t /\ others # {}
                             \/ u \in others]
  /\ pc' = [pc EXCEPT ![t] = "run"]
  /\ UNCHANGED <<user, pending, arg, owned, store, wrote, undone, begun,
                 issued>>

\* What a statement leaves in its task: it is done, and belongs to the block.
Executed(t) ==
  /\ wrote' = [wrote EXCEPT ![t] = IF depth[t] > 0 THEN @ \union {Text(t)} ELSE @]
  /\ pc' = [pc EXCEPT ![t] = "run"]
  /\ arg' = [arg EXCEPT ![t] = 0]
  /\ owned' = [owned EXCEPT ![t] = NoConn]
  /\ UNCHANGED <<slot, depth, met, undone, begun, issued>>

\* The statement runs on the connection found in the slot, in the
\* transaction that is open there.
ExecuteOwned(t) ==
  /\ pc[t] = "owned"
  /\ pending' = [pending EXCEPT ![owned[t]] = @ \union {Text(t)}]
  /\ Executed(t)
  /\ UNCHANGED <<user, level, store>>

\* The statement runs on a borrowed connection and commits; the connection
\* goes back.
ExecuteAuto(t, c) ==
  /\ pc[t] = "auto"
  /\ user[c] = t /\ level[c] = 0
  /\ store' = store \union {Text(t)}
  /\ user' = [user EXCEPT ![c] = NoTask]
  /\ Executed(t)
  /\ UNCHANGED <<level, pending>>

\* Mutant of Abandon: what was acquired is not given back.
AbandonLeaks(t) ==
  /\ MayFail
  /\ pc[t] \in {"block", "statement", "begin", "auto", "owned"}
  /\ pc' = [pc EXCEPT ![t] = "run"]
  /\ arg' = [arg EXCEPT ![t] = 0]
  /\ owned' = [owned EXCEPT ![t] = NoConn]
  /\ UNCHANGED <<user, level, pending, slot, depth, store, wrote, met,
                 undone, begun, issued>>

\* The wait is cancelled, BEGIN or the statement raises: whatever was
\* acquired for it goes back.
Abandon(t) ==
  /\ MayFail
  /\ pc[t] \in {"block", "statement", "begin", "auto", "owned"}
  /\ user' = [c \in Conns |->
                IF user[c] = t /\ level[c] = 0 THEN NoTask ELSE user[c]]
  /\ pc' = [pc EXCEPT ![t] = "run"]
  /\ arg' = [arg EXCEPT ![t] = 0]
  /\ owned' = [owned EXCEPT ![t] = NoConn]
  /\ UNCHANGED <<level, pending, slot, depth, store, wrote, met, undone,
                 begun, issued>>

\* A block that joined ends: nothing is executed.
LeaveJoined(t) ==
  /\ pc[t] = "run"
  /\ depth[t] > 0
  /\ \A c \in Conns : ~ BlockConn(c, t)
  /\ depth' = [depth EXCEPT ![t] = @ - 1]
  /\ UNCHANGED <<user, level, pending, slot, pc, arg, owned, store, wrote,
                 met, undone, begun, issued>>

\* Mutant of LeaveBlock: the connection is taken out of the slot, the task
\* stays.
LeaveHalfSlot(t) ==
  /\ pc[t] = "run"
  /\ \E c \in Conns : BlockConn(c, t)
  /\ slot' = [slot EXCEPT !.conn = NoConn]
  /\ pc' = [pc EXCEPT ![t] = "end"]
  /\ UNCHANGED <<user, level, pending, arg, owned, depth, store, wrote, met,
                 undone, begun, issued>>

\* Mutant of LeaveBlock: the slot is not emptied.
LeaveKeepsSlot(t) ==
  /\ pc[t] = "run"
  /\ \E c \in Conns : BlockConn(c, t)
  /\ pc' = [pc EXCEPT ![t] = "end"]
  /\ UNCHANGED <<user, level, pending, slot, arg, owned, depth, store, wrote,
                 met, undone, begun, issued>>

\* The body of a block is over.  The slot is emptied first, whoever is in it.
LeaveBlock(t) ==
  /\ pc[t] = "run"
  /\ \E c \in Conns : BlockConn(c, t)
  /\ slot' = NoSlot
  /\ pc' = [pc EXCEPT ![t] = "end"]
  /\ UNCHANGED <<user, level, pending, arg, owned, depth, store, wrote, met,
                 undone, begun, issued>>

\* COMMIT or ROLLBACK is answered and the connection goes back.  A COMMIT
\* that fails, or that finds its transaction aborted, rolls back.
EndBlock(t, c) ==
  LET outermost == depth[t] = 1 IN
  /\ pc[t] = "end"
  /\ BlockConn(c, t)
  /\ \/ /\ store' = store \union pending[c]
        /\ UNCHANGED undone
     \/ /\ undone' = undone \union
                       {[text |-> w, met |-> met[t]] :
                          w \in IF outermost THEN wrote[t] ELSE {}}
        /\ UNCHANGED store
  /\ pending' = [pending EXCEPT ![c] = {}]
  /\ user' = [user EXCEPT ![c] = NoTask]
  /\ level' = [level EXCEPT ![c] = 0]
  /\ depth' = [depth EXCEPT ![t] = @ - 1]
  /\ wrote' = [wrote EXCEPT ![t] = IF outermost THEN {} ELSE @]
  /\ met' = [met EXCEPT ![t] = @ /\ ~ outermost]
  /\ pc' = [pc EXCEPT ![t] = "run"]
  /\ UNCHANGED <<slot, arg, owned, begun, issued>>

\* Every task has left its blocks and the bounds are used up.
Quiesce ==
  /\ \A t \in Tasks : pc[t] = "run" /\ depth[t] = 0
  /\ UNCHANGED vars

Granted(t) == \E c \in Conns : Acquire(t, c)
Answered(t) ==
  \/ ExecuteOwned(t)
  \/ \E c \in Conns : BeginBlock(t, c) \/ ExecuteAuto(t, c) \/ EndBlock(t, c)
Leave(t) == LeaveJoined(t) \/ LeaveBlock(t)

Next ==
  \/ \E t \in Tasks : Join(t) \/ AskBlock(t) \/ AskStatement(t) \/ Granted(t)
                      \/ Answered(t) \/ Abandon(t) \/ Leave(t)
  \/ Quiesce

Spec == Init /\ [][Next]_vars

\* The server answers, a block's body ends, and asyncpg serves the tasks that
\* wait for a connection in order.
FairSpec ==
  /\ Spec
  /\ \A t \in Tasks : WF_vars(Answered(t)) /\ WF_vars(Leave(t)) /\ SF_vars(Granted(t))

-----------------------------------------------------------------------------
(* Properties.                                                             *)

Slots == [conn : Conns, owner : Tasks]

TypeOK ==
  /\ user \in [Conns -> Tasks \union {NoTask}]
  /\ level \in [Conns -> Nat]
  /\ pending \in [Conns -> SUBSET Statements]
  /\ slot \in Slots \union {NoSlot}
  /\ pc \in [Tasks -> {"run", "block", "begin", "statement", "auto", "owned", "end"}]
  /\ arg \in [Tasks -> 0 .. MaxWrites]
  /\ \A t \in Tasks : pc[t] \in {"statement", "auto", "owned"} => arg[t] # 0
  /\ owned \in [Tasks -> Conns \union {NoConn}]
  /\ depth \in [Tasks -> Nat]
  /\ store \subseteq Statements
  /\ wrote \in [Tasks -> SUBSET Statements]
  /\ met \in [Tasks -> BOOLEAN]
  /\ undone \subseteq [text : Statements, met : BOOLEAN]
  /\ begun \in Nat
  /\ issued \in 0 .. MaxWrites

\* Every connection that is out belongs to a block its task is still in, or
\* to the one BEGIN or statement its task awaits: none leaks, whatever is
\* cancelled (pool.py:184-190, 274, 284, 294).
ConnectionsHeld ==
  /\ \A c \in Conns : user[c] # NoTask =>
       IF level[c] = 0 THEN pc[user[c]] \in {"begin", "auto"}
       ELSE level[c] <= depth[user[c]]
  /\ \A c, d \in Conns :
       user[c] # NoTask /\ user[c] = user[d] /\ level[c] = level[d] => c = d

\* The slot never outlives its block: the connection in it is held by the
\* task in it, in a transaction that is not being ended yet.  Blocks of other
\* tasks may overwrite or empty it at any time (pool.py:186-190).
SlotLive ==
  slot # NoSlot => /\ InBlock(slot.conn, slot.owner)
                   /\ pc[slot.owner] # "end"

\* No transaction contains a statement of another task: the owner check of
\* _txn_conn_for_current keeps them apart (pool.py:192-195).
OwnStatements ==
  \A c \in Conns : \A w \in pending[c] : InBlock(c, w.by)

\* A block that no block of another task overlapped is all-or-nothing:
\* nothing of it is seen before it ends, and nothing after it was rolled
\* back.  Single statements of other tasks do not disturb it.
AloneAtomic ==
  /\ \A t \in Tasks : ~ met[t] => wrote[t] \intersect store = {}
  /\ \A u \in undone : ~ u.met => u.text \notin store

\* "All-or-nothing block on one held connection" (pool.py:178), for every
\* block.
AllOrNothing == \A u \in undone : u.text \notin store

\* Nobody waits forever and every block ends, although a task that lost the
\* slot asks for a second connection while it holds one.
EveryoneServed == \A t \in Tasks :
  /\ pc[t] # "run" ~> pc[t] = "run"
  /\ depth[t] > 0 ~> depth[t] = 0

=============================================================================
