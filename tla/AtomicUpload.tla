---------------------------- MODULE AtomicUpload ----------------------------
(***************************************************************************)
(* What an upload that is one transaction promises (core/ingestion/upload, *)
(* strategies): the call either returns the id of a dataset that is there  *)
(* as a whole, or leaves nothing.  No statement, no chunk, no retry.  The  *)
(* calls that lose their transaction never answer here.                    *)
(***************************************************************************)
CONSTANTS Uploads,  \* upload calls
          Ids,      \* data ids
          NoUpload

VARIABLES dataset,  \* the call whose file each id holds, as a whole
          answer    \* what each call returned

vars == <<dataset, answer>>

Init ==
  /\ dataset = [i \in Ids |-> NoUpload]
  /\ answer = [u \in Uploads |-> "none"]

\* The dataset appears under a free id in the step that ends the call.
Publish(u, i) ==
  /\ answer[u] = "none"
  /\ dataset[i] = NoUpload
  /\ dataset' = [dataset EXCEPT ![i] = u]
  /\ answer' = [answer EXCEPT ![u] = "id"]

\* The call raises and nothing changed.
Raise(u) ==
  /\ answer[u] = "none"
  /\ answer' = [answer EXCEPT ![u] = "error"]
  /\ UNCHANGED dataset

Next == \E u \in Uploads : Raise(u) \/ \E i \in Ids : Publish(u, i)

Spec == Init /\ [][Next]_vars

=============================================================================
