----------------------------- MODULE AtomicStore -----------------------------
(***************************************************************************)
(* What transaction() promises (db_manager/connection/pool.py): what a     *)
(* task writes inside a block reaches the store all at once, when the      *)
(* block ends, or not at all; what it writes outside one arrives by        *)
(* itself.  No connection, no lock, no slot.                               *)
(***************************************************************************)
EXTENDS Naturals

CONSTANTS Tasks,   \* the coroutines that use the store
          Writes   \* the statements that change it

VARIABLES store,   \* the writes everybody sees
          open,    \* the tasks that are inside a block
          wrote    \* what the block of each task has written so far

vars == <<store, open, wrote>>

Init ==
  /\ store = {}
  /\ open = {}
  /\ wrote = [t \in Tasks |-> {}]

\* A task enters a block.
Enter(t) ==
  /\ t \notin open
  /\ open' = open \union {t}
  /\ UNCHANGED <<store, wrote>>

\* A write inside a block waits for its end.
PutInside(t, w) ==
  /\ t \in open
  /\ wrote' = [wrote EXCEPT ![t] = @ \union {w}]
  /\ UNCHANGED <<store, open>>

\* A write outside a block is there at once.
PutOutside(t, w) ==
  /\ t \notin open
  /\ store' = store \union {w}
  /\ UNCHANGED <<open, wrote>>

\* The block ends: everything it wrote arrives, or nothing does.
Leave(t) ==
  /\ t \in open
  /\ open' = open \ {t}
  /\ store' \in {store, store \union wrote[t]}
  /\ wrote' = [wrote EXCEPT ![t] = {}]

Next == \E t \in Tasks :
  \/ Enter(t)
  \/ Leave(t)
  \/ \E w \in Writes : PutInside(t, w) \/ PutOutside(t, w)

Spec == Init /\ [][Next]_vars

=============================================================================
