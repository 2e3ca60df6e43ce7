---------------------------- MODULE ReplayCache ----------------------------
(***************************************************************************)
(* What the call cache promises, with nothing about how it keeps it: a     *)
(* call is asked, and the answer it is given is the one its computation    *)
(* yields on the contents the dataset has at that moment.  Whether the     *)
(* answer was computed or replayed cannot be told apart.                   *)
(*                                                                         *)
(* The contents are a version number: two answers to one key are the same  *)
(* exactly when they were computed from the same version.                  *)
(***************************************************************************)
EXTENDS Naturals

CONSTANTS Tasks,   \* the coroutines that issue calls
          Keys,    \* the calls: class, method and canonical arguments
          NoKey    \* nothing asked, nothing answered

VARIABLES data,    \* version of the dataset's contents
          asked,   \* the call each task is waiting for
          answer   \* the answer each task was last given

vars == <<data, asked, answer>>

NoContent == [key |-> NoKey, data |-> 0]

Init ==
  /\ data = 1
  /\ asked = [t \in Tasks |-> NoKey]
  /\ answer = [t \in Tasks |-> NoContent]

\* A task issues call k.
Ask(t, k) ==
  /\ asked[t] = NoKey
  /\ asked' = [asked EXCEPT ![t] = k]
  /\ answer' = [answer EXCEPT ![t] = NoContent]
  /\ UNCHANGED data

\* The call is answered from the present contents.
Serve(t) ==
  /\ asked[t] # NoKey
  /\ asked' = [asked EXCEPT ![t] = NoKey]
  /\ answer' = [answer EXCEPT ![t] = [key |-> asked[t], data |-> data]]
  /\ UNCHANGED data

\* The call ends with an error and no answer.
Abandon(t) ==
  /\ asked[t] # NoKey
  /\ asked' = [asked EXCEPT ![t] = NoKey]
  /\ UNCHANGED <<data, answer>>

\* Somebody writes the dataset.
Write ==
  /\ data' = data + 1
  /\ UNCHANGED <<asked, answer>>

Next ==
  \/ \E t \in Tasks : Serve(t) \/ Abandon(t) \/ \E k \in Keys : Ask(t, k)
  \/ Write

Spec == Init /\ [][Next]_vars

=============================================================================
