---------------------------- MODULE PgPoolProofs ----------------------------
(***************************************************************************)
(* The pool of PostgreSQL for any number of tasks, connections, blocks and *)
(* statements: its types, and which connection is whose.                   *)
(***************************************************************************)
EXTENDS PgPool, TLAPS

USE NullAssumption, BoundsAssumption DEF NullAssumption, BoundsAssumption

-----------------------------------------------------------------------------
(* Types.                                                                  *)

LEMMA TextType ==
  ASSUME TypeOK, NEW t \in Tasks, pc[t] \in {"statement", "auto", "owned"}
  PROVE  Text(t) \in Statements /\ Text(t).by = t
BY DEF TypeOK, Text, Statements

LEMMA TypeInit == Init => TypeOK
<1> SUFFICES ASSUME Init PROVE TypeOK
  OBVIOUS
<1>1. /\ user \in [Conns -> Tasks \union {NoTask}]
      /\ level \in [Conns -> Nat]
      /\ pending \in [Conns -> SUBSET Statements]
  BY DEF Init
<1>2. /\ pc \in [Tasks -> {"run", "block", "begin", "statement", "auto",
                           "owned", "end"}]
      /\ arg \in [Tasks -> 0 .. MaxWrites]
      /\ \A t \in Tasks : pc[t] \notin {"statement", "auto", "owned"}
      /\ owned \in [Tasks -> Conns \union {NoConn}]
      /\ depth \in [Tasks -> Nat]
  BY DEF Init
<1>3. /\ wrote \in [Tasks -> SUBSET Statements]
      /\ met \in [Tasks -> BOOLEAN]
      /\ store \subseteq Statements
      /\ undone \subseteq [text : Statements, met : BOOLEAN]
  BY DEF Init
<1>4. slot = NoSlot /\ begun \in Nat /\ issued \in 0 .. MaxWrites
  BY DEF Init
<1> QED
  BY <1>1, <1>2, <1>3, <1>4 DEF TypeOK

LEMMA TypeStep == TypeOK /\ [Next]_vars => TypeOK'
<1> SUFFICES ASSUME TypeOK, [Next]_vars PROVE TypeOK'
  OBVIOUS
<1> USE DEF TypeOK
<1>1. ASSUME NEW t \in Tasks, Join(t) PROVE TypeOK'
  BY <1>1 DEF Join
<1>2. ASSUME NEW t \in Tasks, AskBlock(t) PROVE TypeOK'
  BY <1>2 DEF AskBlock
<1>3. ASSUME NEW t \in Tasks, AskStatement(t) PROVE TypeOK'
  <2>1. OwnedConn(t) \in Conns \union {NoConn}
    BY DEF OwnedConn, Slots, NoSlot
  <2>2. issued + 1 \in 1 .. MaxWrites
    BY <1>3 DEF AskStatement
  <2>3. arg' \in [Tasks -> 0 .. MaxWrites]
    BY <1>3, <2>2 DEF AskStatement
  <2>4. \A u \in Tasks : pc'[u] \in {"statement", "auto", "owned"} => arg'[u] # 0
    BY <1>3, <2>2 DEF AskStatement
  <2> QED
    BY <1>3, <2>1, <2>2, <2>3, <2>4 DEF AskStatement
<1>4. ASSUME NEW t \in Tasks, NEW c \in Conns, Acquire(t, c) PROVE TypeOK'
  BY <1>4 DEF Acquire
<1>5. ASSUME NEW t \in Tasks, NEW c \in Conns, BeginBlock(t, c) PROVE TypeOK'
  <2>1. slot' \in Slots
    BY <1>5 DEF BeginBlock, Slots
  <2>2. met' \in [Tasks -> BOOLEAN]
    BY <1>5 DEF BeginBlock
  <2> QED
    BY <1>5, <2>1, <2>2 DEF BeginBlock
<1>6. ASSUME NEW t \in Tasks, ExecuteOwned(t) PROVE TypeOK'
  <2>1. Text(t) \in Statements
    BY <1>6, TextType DEF ExecuteOwned
  <2>2. pending' \in [Conns -> SUBSET Statements]
    BY <1>6, <2>1 DEF ExecuteOwned
  <2>3. wrote' \in [Tasks -> SUBSET Statements]
    BY <1>6, <2>1 DEF ExecuteOwned, Executed
  <2> QED
    BY <1>6, <2>2, <2>3 DEF ExecuteOwned, Executed
<1>7. ASSUME NEW t \in Tasks, NEW c \in Conns, ExecuteAuto(t, c) PROVE TypeOK'
  <2>1. Text(t) \in Statements
    BY <1>7, TextType DEF ExecuteAuto
  <2>2. store' \subseteq Statements
    BY <1>7, <2>1 DEF ExecuteAuto
  <2>3. wrote' \in [Tasks -> SUBSET Statements]
    BY <1>7, <2>1 DEF ExecuteAuto, Executed
  <2> QED
    BY <1>7, <2>2, <2>3 DEF ExecuteAuto, Executed
<1>8. ASSUME NEW t \in Tasks, Abandon(t) PROVE TypeOK'
  BY <1>8 DEF Abandon
<1>9. ASSUME NEW t \in Tasks, LeaveJoined(t) PROVE TypeOK'
  BY <1>9 DEF LeaveJoined
<1>10. ASSUME NEW t \in Tasks, LeaveBlock(t) PROVE TypeOK'
  BY <1>10 DEF LeaveBlock
<1>11. ASSUME NEW t \in Tasks, NEW c \in Conns, EndBlock(t, c) PROVE TypeOK'
  <2>1. depth[t] > 0
    <3>1. level[c] > 0 /\ level[c] = depth[t]
      BY <1>11 DEF EndBlock, BlockConn, InBlock
    <3> QED
      BY <3>1
  <2>2. depth' \in [Tasks -> Nat]
    BY <1>11, <2>1 DEF EndBlock
  <2>3. store' \subseteq Statements
    BY <1>11 DEF EndBlock
  <2>4. undone' \subseteq [text : Statements, met : BOOLEAN]
    BY <1>11 DEF EndBlock
  <2>5. /\ wrote' \in [Tasks -> SUBSET Statements]
        /\ pending' \in [Conns -> SUBSET Statements]
    BY <1>11 DEF EndBlock
  <2>6. met' \in [Tasks -> BOOLEAN]
    BY <1>11 DEF EndBlock
  <2> QED
    BY <1>11, <2>2, <2>3, <2>4, <2>5, <2>6 DEF EndBlock
<1>12. CASE UNCHANGED vars
  BY <1>12 DEF vars
<1> QED
  BY <1>1, <1>2, <1>3, <1>4, <1>5, <1>6, <1>7, <1>8, <1>9, <1>10, <1>11, <1>12
     DEF Next, Granted, Answered, Leave, Quiesce

\* The variables of the pool stay within their types.
THEOREM PoolTypes == Spec => []TypeOK
BY TypeInit, TypeStep, PTL DEF Spec

-----------------------------------------------------------------------------
(* Which connection is whose.                                              *)

\* A connection that is not out is in no block, and the connection a task
\* found in the slot is still its own when the statement runs on it.
FreeConns == \A c \in Conns : user[c] = NoTask => level[c] = 0
OwnedLive == \A t \in Tasks :
  pc[t] = "owned" => owned[t] \in Conns /\ InBlock(owned[t], t)

Held ==
  /\ ConnectionsHeld
  /\ SlotLive
  /\ OwnStatements
  /\ FreeConns
  /\ OwnedLive

LEMMA HeldInit == Init => Held
<1> SUFFICES ASSUME Init PROVE Held
  OBVIOUS
<1>1. \A c \in Conns : user[c] = NoTask /\ level[c] = 0 /\ pending[c] = {}
  BY DEF Init
<1>2. \A t \in Tasks : pc[t] = "run"
  BY DEF Init
<1> QED
  BY <1>1, <1>2 DEF Init, Held, ConnectionsHeld, SlotLive, OwnStatements,
     FreeConns, OwnedLive

\* Steps that leave the connections and the slot alone, and the task out of
\* "begin", "auto" and "owned", or where it was.
LEMMA HeldQuiet ==
  ASSUME TypeOK, Held, NEW t \in Tasks,
         UNCHANGED <<user, level, pending, slot>>,
         \A u \in Tasks \ {t} : pc'[u] = pc[u] /\ owned'[u] = owned[u]
                                /\ depth'[u] = depth[u],
         pc[t] = "run", pc'[t] \in {"run", "block", "statement"},
         \A c \in Conns : user[c] = t => level[c] <= depth'[t]
  PROVE  Held'
<1> USE DEF TypeOK
<1>1. ConnectionsHeld'
  BY DEF Held, ConnectionsHeld
<1>2. SlotLive'
  BY DEF Held, SlotLive, InBlock, Slots, NoSlot
<1>3. OwnStatements' /\ FreeConns'
  BY DEF Held, OwnStatements, FreeConns, InBlock
<1>4. OwnedLive'
  BY DEF Held, OwnedLive, InBlock
<1> QED
  BY <1>1, <1>2, <1>3, <1>4 DEF Held

LEMMA HeldAskStatement ==
  ASSUME TypeOK, Held, NEW t \in Tasks, AskStatement(t)
  PROVE  Held'
<1> USE DEF TypeOK, AskStatement
<1>1. ConnectionsHeld'
  BY DEF Held, ConnectionsHeld
<1>2. SlotLive'
  BY DEF Held, SlotLive, InBlock, Slots, NoSlot
<1>3. OwnStatements' /\ FreeConns'
  BY DEF Held, OwnStatements, FreeConns, InBlock
<1>4. OwnedLive'
  <2> SUFFICES ASSUME NEW u \in Tasks, pc'[u] = "owned"
               PROVE  owned'[u] \in Conns /\ InBlock(owned[u], u)'
    BY DEF OwnedLive
  <2>1. CASE u = t
    <3>1. OwnedConn(t) # NoConn /\ owned'[t] = OwnedConn(t)
      BY <2>1
    <3>2. slot.owner = t /\ slot.conn = owned'[t] /\ slot # NoSlot
      BY <3>1 DEF OwnedConn, NoSlot
    <3>3. InBlock(slot.conn, t) /\ slot.conn \in Conns
      BY <3>2 DEF Held, SlotLive, Slots
    <3> QED
      BY <2>1, <3>2, <3>3 DEF InBlock
  <2>2. CASE u # t
    BY <2>2 DEF Held, OwnedLive, InBlock
  <2> QED
    BY <2>1, <2>2
<1> QED
  BY <1>1, <1>2, <1>3, <1>4 DEF Held

LEMMA HeldAcquire ==
  ASSUME TypeOK, Held, NEW t \in Tasks, NEW c \in Conns, Acquire(t, c)
  PROVE  Held'
<1> USE DEF TypeOK, Acquire
<1>1. /\ level[c] = 0 /\ pending[c] = {}
      /\ \A d \in Conns : user[d] = t => level[d] # 0
  <2>1. level[c] = 0
    BY DEF Held, FreeConns
  <2>2. \A w \in pending[c] : FALSE
    BY <2>1 DEF Held, OwnStatements, InBlock
  <2> QED
    BY <2>1, <2>2 DEF Held, ConnectionsHeld
<1>2. ConnectionsHeld'
  BY <1>1 DEF Held, ConnectionsHeld
<1>3. SlotLive'
  BY <1>1 DEF Held, SlotLive, InBlock, Slots, NoSlot
<1>4. OwnStatements' /\ FreeConns'
  BY <1>1 DEF Held, OwnStatements, FreeConns, InBlock
<1>5. OwnedLive'
  BY <1>1 DEF Held, OwnedLive, InBlock
<1> QED
  BY <1>2, <1>3, <1>4, <1>5 DEF Held

LEMMA HeldBeginBlock ==
  ASSUME TypeOK, Held, NEW t \in Tasks, NEW c \in Conns, BeginBlock(t, c)
  PROVE  Held'
<1> USE DEF TypeOK, BeginBlock
<1>1. pending[c] = {}
  <2>1. \A w \in pending[c] : FALSE
    BY DEF Held, OwnStatements, InBlock
  <2> QED
    BY <2>1
<1>2. \A d \in Conns \ {c} : user[d] = t => level[d] > 0 /\ level[d] <= depth[t]
  BY DEF Held, ConnectionsHeld
<1>3. ConnectionsHeld'
  <2>1. \A d \in Conns : user'[d] # NoTask =>
          IF level'[d] = 0 THEN pc'[user'[d]] \in {"begin", "auto"}
          ELSE level'[d] <= depth'[user'[d]]
    BY <1>2 DEF Held, ConnectionsHeld
  <2>2. \A d, e \in Conns :
          user'[d] # NoTask /\ user'[d] = user'[e] /\ level'[d] = level'[e] => d = e
    BY <1>2 DEF Held, ConnectionsHeld
  <2> QED
    BY <2>1, <2>2 DEF ConnectionsHeld
<1>4. SlotLive'
  BY DEF SlotLive, InBlock
<1>5. OwnStatements' /\ FreeConns'
  BY <1>1 DEF Held, OwnStatements, FreeConns, InBlock
<1>6. OwnedLive'
  BY DEF Held, OwnedLive, InBlock
<1> QED
  BY <1>3, <1>4, <1>5, <1>6 DEF Held

LEMMA HeldExecuteOwned ==
  ASSUME TypeOK, Held, NEW t \in Tasks, ExecuteOwned(t)
  PROVE  Held'
<1> USE DEF TypeOK, ExecuteOwned, Executed
<1>1. ConnectionsHeld' /\ FreeConns'
  BY DEF Held, ConnectionsHeld, FreeConns
<1>2. SlotLive'
  BY DEF Held, SlotLive, InBlock, Slots, NoSlot
<1>3. OwnStatements'
  <2>1. InBlock(owned[t], t) /\ Text(t).by = t
    BY DEF Held, OwnedLive, Text
  <2>2. \A d \in Conns : \A w \in pending'[d] :
          w \in pending[d] \/ (d = owned[t] /\ w = Text(t))
    OBVIOUS
  <2> QED
    BY <2>1, <2>2 DEF Held, OwnStatements, InBlock
<1>4. OwnedLive'
  BY DEF Held, OwnedLive, InBlock
<1> QED
  BY <1>1, <1>2, <1>3, <1>4 DEF Held

LEMMA HeldExecuteAuto ==
  ASSUME TypeOK, Held, NEW t \in Tasks, NEW c \in Conns, ExecuteAuto(t, c)
  PROVE  Held'
<1> USE DEF TypeOK, ExecuteAuto, Executed
<1>1. \A d \in Conns \ {c} : user[d] = t => level[d] # 0
  BY DEF Held, ConnectionsHeld
<1>2. ConnectionsHeld' /\ FreeConns'
  BY <1>1 DEF Held, ConnectionsHeld, FreeConns
<1>3. SlotLive'
  BY DEF Held, SlotLive, InBlock, Slots, NoSlot
<1>4. OwnStatements'
  BY DEF Held, OwnStatements, InBlock
<1>5. OwnedLive'
  BY DEF Held, OwnedLive, InBlock
<1> QED
  BY <1>2, <1>3, <1>4, <1>5 DEF Held

LEMMA HeldAbandon ==
  ASSUME TypeOK, Held, NEW t \in Tasks, Abandon(t)
  PROVE  Held'
<1> USE DEF TypeOK, Abandon
<1>1. \A d \in Conns : IF user[d] = t /\ level[d] = 0 THEN user'[d] = NoTask
                       ELSE user'[d] = user[d]
  OBVIOUS
<1>2. ConnectionsHeld' /\ FreeConns'
  BY <1>1 DEF Held, ConnectionsHeld, FreeConns
<1>3. SlotLive'
  BY <1>1 DEF Held, SlotLive, InBlock, Slots, NoSlot
<1>4. OwnStatements'
  BY <1>1 DEF Held, OwnStatements, InBlock
<1>5. OwnedLive'
  BY <1>1 DEF Held, OwnedLive, InBlock
<1> QED
  BY <1>2, <1>3, <1>4, <1>5 DEF Held

LEMMA HeldLeaveBlock ==
  ASSUME TypeOK, Held, NEW t \in Tasks, LeaveBlock(t)
  PROVE  Held'
<1> USE DEF TypeOK, LeaveBlock
<1>1. ConnectionsHeld' /\ FreeConns'
  BY DEF Held, ConnectionsHeld, FreeConns
<1>2. SlotLive'
  BY DEF SlotLive
<1>3. OwnStatements'
  BY DEF Held, OwnStatements, InBlock
<1>4. OwnedLive'
  BY DEF Held, OwnedLive, InBlock
<1> QED
  BY <1>1, <1>2, <1>3, <1>4 DEF Held

LEMMA HeldEndBlock ==
  ASSUME TypeOK, Held, NEW t \in Tasks, NEW c \in Conns, EndBlock(t, c)
  PROVE  Held'
<1> USE DEF TypeOK, EndBlock, BlockConn, InBlock
<1>1. \A d \in Conns \ {c} : user[d] = t =>
        level[d] > 0 /\ level[d] <= depth[t] - 1
  <2> SUFFICES ASSUME NEW d \in Conns \ {c}, user[d] = t
               PROVE  level[d] > 0 /\ level[d] <= depth[t] - 1
    OBVIOUS
  <2>1. level[d] # 0 /\ level[d] <= depth[t]
    BY DEF Held, ConnectionsHeld
  <2>2. level[d] # depth[t]
    BY DEF Held, ConnectionsHeld
  <2>3. level[d] \in Nat /\ depth[t] \in Nat
    OBVIOUS
  <2> QED
    BY <2>1, <2>2, <2>3
<1>2. ConnectionsHeld' /\ FreeConns'
  BY <1>1 DEF Held, ConnectionsHeld, FreeConns
<1>3. SlotLive'
  BY DEF Held, SlotLive, Slots, NoSlot
<1>4. OwnStatements'
  BY DEF Held, OwnStatements
<1>5. OwnedLive'
  BY DEF Held, OwnedLive
<1> QED
  BY <1>2, <1>3, <1>4, <1>5 DEF Held

LEMMA HeldStep == TypeOK /\ Held /\ [Next]_vars => Held'
<1> SUFFICES ASSUME TypeOK, Held, [Next]_vars PROVE Held'
  OBVIOUS
<1>1. ASSUME NEW t \in Tasks, Join(t) PROVE Held'
  <2>1. \A c \in Conns : user[c] = t => level[c] <= depth'[t]
    BY <1>1 DEF Join, TypeOK, Held, ConnectionsHeld
  <2> QED
    BY <1>1, <2>1, HeldQuiet DEF Join, TypeOK
<1>2. ASSUME NEW t \in Tasks, AskBlock(t) PROVE Held'
  <2>1. \A c \in Conns : user[c] = t => level[c] <= depth'[t]
    BY <1>2 DEF AskBlock, TypeOK, Held, ConnectionsHeld
  <2> QED
    BY <1>2, <2>1, HeldQuiet DEF AskBlock, TypeOK
<1>3. ASSUME NEW t \in Tasks, LeaveJoined(t) PROVE Held'
  <2>1. \A c \in Conns : user[c] = t => level[c] <= depth'[t]
    BY <1>3 DEF LeaveJoined, BlockConn, InBlock, TypeOK, Held, ConnectionsHeld
  <2> QED
    BY <1>3, <2>1, HeldQuiet DEF LeaveJoined, TypeOK
<1>4. CASE UNCHANGED vars
  BY <1>4 DEF vars, Held, ConnectionsHeld, SlotLive, OwnStatements, FreeConns,
              OwnedLive, InBlock
<1> QED
  BY <1>1, <1>2, <1>3, <1>4, HeldAskStatement, HeldAcquire, HeldBeginBlock,
     HeldExecuteOwned, HeldExecuteAuto, HeldAbandon, HeldLeaveBlock, HeldEndBlock
     DEF Next, Granted, Answered, Leave, Quiesce

LEMMA HeldAlways == Spec => [](TypeOK /\ Held)
BY HeldInit, HeldStep, PoolTypes, PTL DEF Spec

\* No connection leaks: each one that is out belongs to a block its task is
\* in, or to what the task awaits.
THEOREM ConnectionSafety == Spec => []ConnectionsHeld
BY HeldAlways, PTL DEF Held

\* The slot never holds a connection whose block is over.
THEOREM SlotSafety == Spec => []SlotLive
BY HeldAlways, PTL DEF Held

\* No transaction contains a statement of another task, however the blocks of
\* different tasks overwrite each other's slot.
THEOREM StatementSafety == Spec => []OwnStatements
BY HeldAlways, PTL DEF Held

-----------------------------------------------------------------------------
(* A block that no other one overlaps is all-or-nothing.                   *)

\* A statement that was executed: it is known by its number, which no waiting
\* statement of its task has.
Known(w) ==
  \/ w \in store
  \/ \E c \in Conns : w \in pending[c]
  \/ \E t \in Tasks : w \in wrote[t]
  \/ \E u \in undone : w = u.text
Numbered ==
  /\ \A t \in Tasks : arg[t] <= issued
  /\ \A w \in Statements : Known(w) => w.n <= issued /\ w.n # arg[w.by]

\* A task inside a block holds the connection of the outermost one; outside
\* of blocks it has written nothing.
Blocks == \A t \in Tasks :
  /\ depth[t] > 0 => \E c \in Conns : InBlock(c, t) /\ level[c] = 1
  /\ depth[t] = 0 => wrote[t] = {} /\ ~ met[t]
  /\ \A w \in wrote[t] : w.by = t

\* A block that met no other: it is the only one, it has the slot until it
\* ends, and what its statements did is what is pending on its connection.
Alone(t) == depth[t] > 0 /\ ~ met[t]
Lone == \A t \in Tasks : Alone(t) =>
  /\ \A u \in Tasks \ {t}, c \in Conns : ~ InBlock(c, u)
  /\ \A c \in Conns : InBlock(c, t) => level[c] = 1 /\ pending[c] = wrote[t]
  /\ pc[t] \in {"run", "owned", "end"}
  /\ pc[t] # "end" => slot.owner = t
  /\ wrote[t] \intersect store = {}

\* What such a block was rolled back with is nowhere any more.
Undone == \A u \in undone : ~ u.met =>
  u.text \notin store /\ \A c \in Conns : u.text \notin pending[c]

IInv == TypeOK /\ Held /\ Numbered /\ Blocks /\ Lone /\ Undone

LEMMA IInvInit == Init => IInv
<1> SUFFICES ASSUME Init PROVE IInv
  OBVIOUS
<1>1. /\ \A c \in Conns : pending[c] = {}
      /\ \A t \in Tasks : arg[t] = 0 /\ depth[t] = 0 /\ wrote[t] = {} /\ met[t] = FALSE
      /\ store = {} /\ undone = {} /\ issued = 0
  BY DEF Init
<1>2. Numbered
  BY <1>1 DEF Numbered, Known
<1>3. Blocks /\ Lone /\ Undone
  BY <1>1 DEF Blocks, Lone, Alone, Undone
<1> QED
  BY <1>2, <1>3, TypeInit, HeldInit DEF IInv

\* Statements become known only by being executed, and are not issued twice.
LEMMA NumberedStep == IInv /\ [Next]_vars => Numbered'
<1> SUFFICES ASSUME IInv, [Next]_vars PROVE Numbered'
  OBVIOUS
<1> USE DEF IInv, TypeOK
<1>1. ASSUME issued' = issued, arg' = arg, \A w \in Statements : Known(w)' => Known(w)
      PROVE Numbered'
  BY <1>1 DEF Numbered
<1>2. ASSUME NEW t \in Tasks, AskStatement(t) PROVE Numbered'
  <2>1. \A w \in Statements : Known(w)' => Known(w)
    BY <1>2 DEF AskStatement, Known
  <2>2. \A w \in Statements : w.by \in Tasks /\ w.n \in Nat
    BY DEF Statements
  <2>3. \A u \in Tasks : arg[u] \in Nat /\ arg'[u] = IF u = t THEN issued + 1 ELSE arg[u]
    BY <1>2 DEF AskStatement
  <2>4. issued' = issued + 1 /\ issued \in Nat
    BY <1>2 DEF AskStatement
  <2>5. \A u \in Tasks : arg'[u] <= issued'
    BY <2>3, <2>4 DEF Numbered
  <2>6. ASSUME NEW w \in Statements, Known(w)'
        PROVE  w.n <= issued' /\ w.n # arg'[w.by]
    BY <2>1, <2>2, <2>3, <2>4, <2>6 DEF Numbered
  <2> QED
    BY <2>5, <2>6 DEF Numbered
<1>3. ASSUME NEW t \in Tasks, pc[t] \in {"auto", "owned"}, issued' = issued,
             arg' = [arg EXCEPT ![t] = 0],
             \A w \in Statements : Known(w)' => Known(w) \/ w = Text(t)
      PROVE Numbered'
  <2>1. \A w \in Statements : w.by \in Tasks /\ w.n \in Nat /\ w.n # 0
    BY DEF Statements
  <2>2. Text(t).n = arg[t] /\ Text(t).by = t
    BY DEF Text
  <2>3. \A u \in Tasks : arg[u] \in Nat /\ arg'[u] = IF u = t THEN 0 ELSE arg[u]
    BY <1>3
  <2>4. \A u \in Tasks : arg'[u] <= issued'
    BY <1>3, <2>3 DEF Numbered
  <2>5. ASSUME NEW w \in Statements, Known(w)'
        PROVE  w.n <= issued' /\ w.n # arg'[w.by]
    BY <1>3, <2>1, <2>2, <2>3, <2>5 DEF Numbered
  <2> QED
    BY <2>4, <2>5 DEF Numbered
<1>4. ASSUME NEW t \in Tasks, ExecuteOwned(t) PROVE Numbered'
  <2>1. \A w \in Statements : Known(w)' => Known(w) \/ w = Text(t)
    BY <1>4 DEF ExecuteOwned, Executed, Known
  <2> QED
    BY <1>3, <1>4, <2>1 DEF ExecuteOwned, Executed
<1>5. ASSUME NEW t \in Tasks, NEW c \in Conns, ExecuteAuto(t, c) PROVE Numbered'
  <2>1. \A w \in Statements : Known(w)' => Known(w) \/ w = Text(t)
    BY <1>5 DEF ExecuteAuto, Executed, Known
  <2> QED
    BY <1>3, <1>5, <2>1 DEF ExecuteAuto, Executed
<1>6. ASSUME NEW t \in Tasks, Abandon(t) PROVE Numbered'
  <2>1. \A w \in Statements : Known(w)' => Known(w)
    BY <1>6 DEF Abandon, Known
  <2>2. \A w \in Statements : w.by \in Tasks /\ w.n # 0
    BY DEF Statements
  <2>3. \A u \in Tasks : arg'[u] = IF u = t THEN 0 ELSE arg[u]
    BY <1>6 DEF Abandon
  <2> QED
    BY <1>6, <2>1, <2>2, <2>3 DEF Abandon, Numbered
<1>7. ASSUME NEW t \in Tasks, NEW c \in Conns, EndBlock(t, c) PROVE Numbered'
  <2>1. \A w \in Statements : Known(w)' => Known(w)
    <3> SUFFICES ASSUME NEW w \in Statements, Known(w)' PROVE Known(w)
      OBVIOUS
    <3>1. \A d \in Conns : pending'[d] \subseteq pending[d]
      BY <1>7 DEF EndBlock
    <3>2. \A u \in Tasks : wrote'[u] \subseteq wrote[u]
      BY <1>7 DEF EndBlock
    <3>3. store' \subseteq store \union pending[c]
      BY <1>7 DEF EndBlock
    <3>4. \A u \in undone' : u \in undone \/ u.text \in wrote[t]
      BY <1>7 DEF EndBlock
    <3> QED
      BY <3>1, <3>2, <3>3, <3>4 DEF Known
  <2> QED
    BY <1>1, <1>7, <2>1 DEF EndBlock
<1>8. ASSUME UNCHANGED <<arg, issued, store, pending, wrote, undone>> PROVE Numbered'
  BY <1>1, <1>8 DEF Known
<1> QED
  BY <1>2, <1>4, <1>5, <1>6, <1>7, <1>8
     DEF Next, Granted, Answered, Leave, Quiesce, vars, Join, AskBlock, Acquire,
         BeginBlock, LeaveJoined, LeaveBlock

\* The connection of the outermost block stays with its task until the block
\* ends.
LEMMA BlocksStep == IInv /\ [Next]_vars => Blocks'
<1> SUFFICES ASSUME IInv, [Next]_vars PROVE Blocks'
  OBVIOUS
<1> USE DEF IInv, TypeOK
<1>1. ASSUME NEW t \in Tasks, Join(t) PROVE Blocks'
  <2>1. depth[t] > 0
    <3>1. InBlock(slot.conn, t) /\ slot.conn \in Conns
      BY <1>1 DEF Join, Held, SlotLive, Slots, NoSlot
    <3>2. level[slot.conn] > 0 /\ level[slot.conn] <= depth[t]
      BY <3>1 DEF Held, ConnectionsHeld, InBlock
    <3> QED
      BY <3>1, <3>2
  <2> QED
    BY <1>1, <2>1 DEF Join, Blocks, InBlock
<1>2. ASSUME NEW t \in Tasks, NEW c \in Conns, Acquire(t, c) PROVE Blocks'
  BY <1>2 DEF Acquire, Blocks, InBlock
<1>3. ASSUME NEW t \in Tasks, NEW c \in Conns, BeginBlock(t, c) PROVE Blocks'
  <2> SUFFICES ASSUME NEW u \in Tasks
               PROVE  /\ depth'[u] > 0 => \E d \in Conns : InBlock(d, u)' /\ level'[d] = 1
                      /\ depth'[u] = 0 => wrote'[u] = {} /\ ~ met'[u]
                      /\ \A w \in wrote'[u] : w.by = u
    BY DEF Blocks
  <2>1. CASE u = t
    <3>1. CASE depth[t] = 0
      BY <1>3, <2>1, <3>1 DEF BeginBlock, Blocks, InBlock
    <3>2. CASE depth[t] > 0
      BY <1>3, <2>1, <3>2 DEF BeginBlock, Blocks, InBlock
    <3> QED
      BY <3>1, <3>2
  <2>2. CASE u # t
    <3>1. depth[u] = 0 => ~ \E d \in Conns : InBlock(d, u)
      BY DEF Held, ConnectionsHeld, InBlock
    <3>2. depth'[u] = depth[u] /\ wrote'[u] = wrote[u]
      BY <1>3, <2>2 DEF BeginBlock
    <3>3. depth[u] = 0 => ~ met'[u]
      BY <1>3, <2>2, <3>1 DEF BeginBlock, Blocks
    <3>4. \A d \in Conns : InBlock(d, u) => InBlock(d, u)' /\ level'[d] = level[d]
      BY <1>3, <2>2 DEF BeginBlock, InBlock
    <3> QED
      BY <3>2, <3>3, <3>4 DEF Blocks
  <2> QED
    BY <2>1, <2>2
<1>4. ASSUME NEW t \in Tasks, Executed(t), UNCHANGED level,
             \A c \in Conns : level[c] > 0 => user'[c] = user[c]
      PROVE Blocks'
  <2>1. \A u \in Tasks : wrote'[u] = wrote[u] \/
                         (u = t /\ depth[t] > 0 /\ wrote'[u] = wrote[u] \union {Text(t)})
    BY <1>4 DEF Executed
  <2>2. Text(t).by = t
    BY DEF Text
  <2>3. \A u \in Tasks : depth'[u] = depth[u] /\ met'[u] = met[u]
    BY <1>4 DEF Executed
  <2>4. \A u \in Tasks, c \in Conns : InBlock(c, u) => InBlock(c, u)'
    BY <1>4 DEF InBlock
  <2> QED
    BY <1>4, <2>1, <2>2, <2>3, <2>4 DEF Blocks
<1>5. ASSUME NEW t \in Tasks, ExecuteOwned(t) PROVE Blocks'
  BY <1>4, <1>5 DEF ExecuteOwned
<1>6. ASSUME NEW t \in Tasks, NEW c \in Conns, ExecuteAuto(t, c) PROVE Blocks'
  BY <1>4, <1>6 DEF ExecuteAuto
<1>7. ASSUME NEW t \in Tasks, Abandon(t) PROVE Blocks'
  <2>1. \A u \in Tasks, c \in Conns : InBlock(c, u) => InBlock(c, u)'
    BY <1>7 DEF Abandon, InBlock
  <2> QED
    BY <1>7, <2>1 DEF Abandon, Blocks
<1>8. ASSUME NEW t \in Tasks, LeaveJoined(t) PROVE Blocks'
  <2>1. \A c \in Conns : InBlock(c, t) => level[c] # depth[t]
    BY <1>8 DEF LeaveJoined, BlockConn
  <2>2. depth[t] > 1
    BY <1>8, <2>1 DEF LeaveJoined, Blocks
  <2> QED
    BY <1>8, <2>2 DEF LeaveJoined, Blocks, InBlock
<1>9. ASSUME NEW t \in Tasks, NEW c \in Conns, EndBlock(t, c) PROVE Blocks'
  <2>1. InBlock(c, t) /\ level[c] = depth[t]
    BY <1>9 DEF EndBlock, BlockConn
  <2> SUFFICES ASSUME NEW u \in Tasks
               PROVE  /\ depth'[u] > 0 => \E d \in Conns : InBlock(d, u)' /\ level'[d] = 1
                      /\ depth'[u] = 0 => wrote'[u] = {} /\ ~ met'[u]
                      /\ \A w \in wrote'[u] : w.by = u
    BY DEF Blocks
  <2>2. CASE u # t
    <3>1. \A d \in Conns : InBlock(d, u) => InBlock(d, u)' /\ level'[d] = level[d]
      BY <1>9, <2>1, <2>2 DEF EndBlock, InBlock
    <3> QED
      BY <1>9, <2>2, <3>1 DEF EndBlock, Blocks
  <2>3. CASE u = t /\ depth[t] = 1
    <3>1. depth'[t] = 0
      BY <1>9, <2>3 DEF EndBlock
    <3>2. wrote'[t] = {}
      BY <1>9, <2>3 DEF EndBlock
    <3>3. ~ met'[t]
      BY <1>9, <2>3 DEF EndBlock
    <3> QED
      BY <2>3, <3>1, <3>2, <3>3
  <2>4. CASE u = t /\ depth[t] # 1
    <3>1. depth[t] > 1
      BY <2>1, <2>4 DEF InBlock
    <3>2. PICK d \in Conns : InBlock(d, t) /\ level[d] = 1
      BY <3>1 DEF Blocks
    <3>3. d # c
      BY <2>1, <2>4, <3>2
    <3>4. InBlock(d, t)' /\ level'[d] = 1
      BY <1>9, <3>2, <3>3 DEF EndBlock, InBlock
    <3> QED
      BY <1>9, <2>4, <3>1, <3>4 DEF EndBlock, Blocks
  <2> QED
    BY <2>2, <2>3, <2>4
<1>10. ASSUME UNCHANGED <<user, level, depth, wrote, met>> PROVE Blocks'
  BY <1>10 DEF Blocks, InBlock
<1> QED
  BY <1>1, <1>2, <1>3, <1>5, <1>6, <1>7, <1>8, <1>9, <1>10
     DEF Next, Granted, Answered, Leave, Quiesce, vars, AskBlock, AskStatement,
         LeaveBlock

\* A block of another task marks both; as long as there is none, the slot is
\* emptied by nobody else and every statement of the block finds it.
LEMMA LoneStep == IInv /\ [Next]_vars => Lone'
<1> SUFFICES ASSUME IInv, [Next]_vars PROVE Lone'
  OBVIOUS
<1> DEFINE P(t) ==
      /\ \A u \in Tasks \ {t}, c \in Conns : ~ InBlock(c, u)
      /\ \A c \in Conns : InBlock(c, t) => level[c] = 1 /\ pending[c] = wrote[t]
      /\ pc[t] \in {"run", "owned", "end"}
      /\ pc[t] # "end" => slot.owner = t
      /\ wrote[t] \intersect store = {}
<1>0. \A t \in Tasks : Alone(t) => P(t)
  BY DEF IInv, Lone
<1> SUFFICES ASSUME NEW t \in Tasks, Alone(t)' PROVE P(t)'
  BY DEF Lone
<1> USE DEF IInv, TypeOK
<1>1. ASSUME NEW u \in Tasks, Join(u) PROVE P(t)'
  <2>1. Alone(t)
    <3>1. InBlock(slot.conn, u) /\ slot.conn \in Conns
      BY <1>1 DEF Join, Held, SlotLive, Slots, NoSlot
    <3>2. depth[u] > 0
      <4>1. level[slot.conn] > 0 /\ level[slot.conn] <= depth[u]
        BY <3>1 DEF Held, ConnectionsHeld, InBlock
      <4> QED
        BY <3>1, <4>1
    <3> QED
      BY <1>1, <3>2 DEF Join, Alone
  <2> QED
    BY <1>0, <1>1, <2>1 DEF Join, InBlock
<1>2. ASSUME NEW u \in Tasks, AskBlock(u) PROVE P(t)'
  <2>1. Alone(t)
    BY <1>2 DEF AskBlock, Alone
  <2>2. u # t
    BY <1>0, <1>2, <2>1 DEF AskBlock
  <2> QED
    BY <1>0, <1>2, <2>1, <2>2 DEF AskBlock, InBlock
<1>3. ASSUME NEW u \in Tasks, AskStatement(u) PROVE P(t)'
  <2>1. Alone(t)
    BY <1>3 DEF AskStatement, Alone
  <2>2. u = t => pc'[t] = "owned"
    <3> SUFFICES ASSUME u = t PROVE pc'[t] = "owned"
      OBVIOUS
    <3>1. slot.owner = t
      BY <1>0, <1>3, <2>1 DEF AskStatement
    <3>2. OwnedConn(t) # NoConn
      BY <3>1 DEF OwnedConn, Slots, NoSlot
    <3> QED
      BY <1>3, <3>2 DEF AskStatement
  <2>3. pc'[t] \in {"run", "owned", "end"} /\ (pc'[t] # "end" => slot'.owner = t)
    BY <1>0, <1>3, <2>1, <2>2 DEF AskStatement
  <2> QED
    BY <1>0, <1>3, <2>1, <2>3 DEF AskStatement, InBlock
<1>4. ASSUME NEW u \in Tasks, NEW c \in Conns, Acquire(u, c) PROVE P(t)'
  <2>1. Alone(t)
    BY <1>4 DEF Acquire, Alone
  <2>2. u # t
    BY <1>0, <1>4, <2>1 DEF Acquire
  <2>3. level[c] = 0
    BY <1>4 DEF Acquire, Held, FreeConns
  <2> QED
    BY <1>0, <1>4, <2>1, <2>2, <2>3 DEF Acquire, InBlock
<1>5. ASSUME NEW u \in Tasks, NEW c \in Conns, BeginBlock(u, c) PROVE P(t)'
  <2> DEFINE others == {v \in Tasks \ {u} : \E d \in Conns : InBlock(d, v)}
  <2>1. \A v \in Tasks : met'[v] = (met[v] \/ (v = u /\ others # {}) \/ v \in others)
    BY <1>5 DEF BeginBlock
  <2>2. t = u
    <3> SUFFICES ASSUME t # u PROVE FALSE
      OBVIOUS
    <3>1. depth[t] > 0
      BY <1>5 DEF BeginBlock, Alone
    <3>2. t \in others
      BY <3>1 DEF Blocks
    <3> QED
      BY <2>1, <3>2 DEF Alone
  <2>3. others = {} /\ ~ met[t]
    BY <2>1, <2>2 DEF Alone
  <2>4. depth[t] = 0
    <3> SUFFICES ASSUME depth[t] > 0 PROVE FALSE
      OBVIOUS
    <3> QED
      BY <1>0, <1>5, <2>2, <2>3 DEF Alone, BeginBlock
  <2>5. \A d \in Conns : ~ InBlock(d, t)
    BY <2>4 DEF Held, ConnectionsHeld, InBlock
  <2>6. wrote[t] = {}
    BY <2>4 DEF Blocks
  <2>7. pending[c] = {}
    <3>1. \A w \in pending[c] : FALSE
      BY <1>5 DEF BeginBlock, Held, OwnStatements, InBlock
    <3> QED
      BY <3>1
  <2>8. \A v \in Tasks, d \in Conns : InBlock(d, v)' => v = t /\ d = c
    BY <1>5, <2>2, <2>3, <2>5 DEF BeginBlock, InBlock
  <2>9. level'[c] = 1
    BY <1>5, <2>2, <2>4 DEF BeginBlock
  <2>10. pending'[c] = wrote'[t] /\ wrote'[t] = {}
    BY <1>5, <2>6, <2>7 DEF BeginBlock
  <2>11. pc'[t] = "run" /\ slot'.owner = t
    BY <1>5, <2>2 DEF BeginBlock
  <2> QED
    BY <2>8, <2>9, <2>10, <2>11
<1>6. ASSUME NEW u \in Tasks, ExecuteOwned(u) PROVE P(t)'
  <2>1. Alone(t)
    BY <1>6 DEF ExecuteOwned, Executed, Alone
  <2>2. owned[u] \in Conns /\ InBlock(owned[u], u)
    BY <1>6 DEF ExecuteOwned, Held, OwnedLive
  <2>3. u = t
    BY <1>0, <2>1, <2>2
  <2>4. wrote'[t] = wrote[t] \union {Text(t)}
    BY <1>6, <2>1, <2>3 DEF ExecuteOwned, Executed, Alone
  <2>5. Text(t) \notin store
    <3>1. Text(t) \in Statements /\ Text(t).by = t /\ Text(t).n = arg[t]
      BY <1>6, <2>3, TextType DEF ExecuteOwned, Text
    <3> QED
      BY <3>1 DEF Numbered, Known
  <2>6. \A d \in Conns : InBlock(d, t) => d = owned[t]
    <3>1. \A d \in Conns : InBlock(d, t) => level[d] = 1
      BY <1>0, <2>1
    <3> QED
      BY <2>2, <2>3, <3>1 DEF Held, ConnectionsHeld, InBlock
  <2>7. \A v \in Tasks, d \in Conns : InBlock(d, v)' <=> InBlock(d, v)
    BY <1>6 DEF ExecuteOwned, InBlock
  <2>8. \A d \in Conns : InBlock(d, t) => level'[d] = 1 /\ pending'[d] = wrote'[t]
    BY <1>0, <1>6, <2>1, <2>2, <2>3, <2>4, <2>6 DEF ExecuteOwned
  <2>9. pc'[t] = "run" /\ slot'.owner = t
    BY <1>0, <1>6, <2>1, <2>3 DEF ExecuteOwned, Executed
  <2>10. wrote'[t] \intersect store' = {}
    BY <1>0, <1>6, <2>1, <2>4, <2>5 DEF ExecuteOwned
  <2> QED
    BY <1>0, <2>1, <2>7, <2>8, <2>9, <2>10
<1>7. ASSUME NEW u \in Tasks, NEW c \in Conns, ExecuteAuto(u, c) PROVE P(t)'
  <2>1. Alone(t)
    BY <1>7 DEF ExecuteAuto, Executed, Alone
  <2>2. u # t
    BY <1>0, <1>7, <2>1 DEF ExecuteAuto
  <2>3. wrote'[t] = wrote[t] /\ pc'[t] = pc[t]
    BY <1>7, <2>2 DEF ExecuteAuto, Executed
  <2>4. \A v \in Tasks, d \in Conns : InBlock(d, v)' <=> InBlock(d, v)
    BY <1>7 DEF ExecuteAuto, InBlock
  <2>5. wrote[t] \intersect store' = {}
    <3>1. Text(u) \notin wrote[t]
      BY <2>2 DEF Blocks, Text
    <3> QED
      BY <1>0, <1>7, <2>1, <3>1 DEF ExecuteAuto
  <2> QED
    BY <1>0, <1>7, <2>1, <2>3, <2>4, <2>5 DEF ExecuteAuto, Executed
<1>8. ASSUME NEW u \in Tasks, Abandon(u) PROVE P(t)'
  <2>1. Alone(t)
    BY <1>8 DEF Abandon, Alone
  <2>2. \A v \in Tasks, d \in Conns : InBlock(d, v)' <=> InBlock(d, v)
    BY <1>8 DEF Abandon, InBlock
  <2>3. pc'[t] = pc[t] \/ (pc'[t] = "run" /\ pc[t] # "end")
    BY <1>8 DEF Abandon
  <2> QED
    BY <1>0, <1>8, <2>1, <2>2, <2>3 DEF Abandon
<1>9. ASSUME NEW u \in Tasks, LeaveJoined(u) PROVE P(t)'
  <2>1. Alone(t)
    BY <1>9 DEF LeaveJoined, Alone
  <2> QED
    BY <1>0, <1>9, <2>1 DEF LeaveJoined, InBlock
<1>10. ASSUME NEW u \in Tasks, LeaveBlock(u) PROVE P(t)'
  <2>1. Alone(t)
    BY <1>10 DEF LeaveBlock, Alone
  <2>2. u = t
    BY <1>0, <1>10, <2>1 DEF LeaveBlock, BlockConn
  <2> QED
    BY <1>0, <1>10, <2>1, <2>2 DEF LeaveBlock, InBlock
<1>11. ASSUME NEW u \in Tasks, NEW c \in Conns, EndBlock(u, c) PROVE P(t)'
  <2>1. InBlock(c, u) /\ level[c] = depth[u]
    BY <1>11 DEF EndBlock, BlockConn
  <2>2. t # u
    <3> SUFFICES ASSUME t = u PROVE FALSE
      OBVIOUS
    <3>1. depth[t] # 1
      BY <1>11 DEF EndBlock, Alone
    <3>2. Alone(t)
      BY <1>11, <2>1, <3>1 DEF EndBlock, Alone, InBlock
    <3> QED
      BY <1>0, <2>1, <3>1, <3>2
  <2>3. Alone(t)
    BY <1>11, <2>2 DEF EndBlock, Alone
  <2> QED
    BY <1>0, <2>1, <2>2, <2>3
<1>12. CASE UNCHANGED vars
  BY <1>0, <1>12 DEF vars, Alone, InBlock
<1> QED
  BY <1>1, <1>2, <1>3, <1>4, <1>5, <1>6, <1>7, <1>8, <1>9, <1>10, <1>11, <1>12
     DEF Next, Granted, Answered, Leave, Quiesce

\* The statements of such a block were pending on its connection and nowhere
\* else; the rollback drops them there, and none is issued again.
LEMMA UndoneStep == IInv /\ [Next]_vars => Undone'
<1> SUFFICES ASSUME IInv, [Next]_vars PROVE Undone'
  OBVIOUS
<1> USE DEF IInv, TypeOK
<1>1. ASSUME NEW t \in Tasks, pc[t] \in {"auto", "owned"}, undone' = undone,
             store' \subseteq store \union {Text(t)},
             \A c \in Conns : pending'[c] \subseteq pending[c] \union {Text(t)}
      PROVE Undone'
  <2>1. Text(t) \in Statements /\ Text(t).by = t /\ Text(t).n = arg[t]
    BY <1>1, TextType DEF Text
  <2>2. \A u \in undone : u.text # Text(t)
    BY <2>1 DEF Numbered, Known
  <2> QED
    BY <1>1, <2>2 DEF Undone
<1>2. ASSUME NEW t \in Tasks, ExecuteOwned(t) PROVE Undone'
  BY <1>1, <1>2 DEF ExecuteOwned, Executed
<1>3. ASSUME NEW t \in Tasks, NEW c \in Conns, ExecuteAuto(t, c) PROVE Undone'
  BY <1>1, <1>3 DEF ExecuteAuto, Executed
<1>4. ASSUME NEW t \in Tasks, NEW c \in Conns, EndBlock(t, c) PROVE Undone'
  <2>1. InBlock(c, t) /\ level[c] = depth[t] /\ depth[t] > 0
    BY <1>4 DEF EndBlock, BlockConn, InBlock
  <2>2. \A d \in Conns : pending'[d] = IF d = c THEN {} ELSE pending[d]
    BY <1>4 DEF EndBlock
  <2>3. CASE undone' = undone /\ store' = store \union pending[c]
    BY <2>2, <2>3 DEF Undone
  <2>4. CASE /\ undone' = undone \union
                  {[text |-> w, met |-> met[t]] :
                     w \in IF depth[t] = 1 THEN wrote[t] ELSE {}}
             /\ store' = store
    <3> SUFFICES ASSUME NEW u \in undone', ~ u.met
                 PROVE  u.text \notin store /\ \A d \in Conns : u.text \notin pending'[d]
      BY <2>4 DEF Undone
    <3>1. CASE u \in undone
      BY <2>2, <3>1 DEF Undone
    <3>2. CASE u \notin undone
      <4>1. PICK w \in wrote[t] : u = [text |-> w, met |-> met[t]]
        BY <2>4, <3>2
      <4>2. Alone(t)
        BY <2>1, <4>1 DEF Alone
      <4>3. w \notin store
        BY <4>1, <4>2 DEF Lone
      <4>4. ASSUME NEW d \in Conns, w \in pending'[d] PROVE FALSE
        <5>1. d # c /\ w \in pending[d] /\ w.by = t
          BY <2>2, <4>1, <4>4 DEF Blocks
        <5>2. InBlock(d, t)
          BY <5>1 DEF Held, OwnStatements
        <5>3. level[d] = level[c]
          BY <2>1, <4>2, <5>2 DEF Lone
        <5> QED
          BY <2>1, <5>1, <5>2, <5>3 DEF Held, ConnectionsHeld, InBlock
      <4> QED
        BY <4>1, <4>3, <4>4
    <3> QED
      BY <3>1, <3>2
  <2> QED
    BY <1>4, <2>3, <2>4 DEF EndBlock
<1>5. ASSUME UNCHANGED <<store, pending, undone>> PROVE Undone'
  BY <1>5 DEF Undone
<1> QED
  BY <1>2, <1>3, <1>4, <1>5
     DEF Next, Granted, Answered, Leave, Quiesce, vars, Join, AskBlock,
         AskStatement, Acquire, BeginBlock, Abandon, LeaveJoined, LeaveBlock

LEMMA IInvAlways == Spec => []IInv
<1>1. IInv /\ [Next]_vars => IInv'
  BY TypeStep, HeldStep, NumberedStep, BlocksStep, LoneStep, UndoneStep DEF IInv
<1> QED
  BY <1>1, IInvInit, PTL DEF Spec

\* A block that overlaps no block of another task keeps the docstring's
\* promise, whatever single statements run next to it and whatever fails.
THEOREM AloneSafety == Spec => []AloneAtomic
<1>1. IInv => AloneAtomic
  BY DEF IInv, TypeOK, Blocks, Lone, Alone, Undone, AloneAtomic
<1> QED
  BY <1>1, IInvAlways, PTL

=============================================================================
