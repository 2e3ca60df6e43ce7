---------------------------- MODULE MCRecordCall ----------------------------
(***************************************************************************)
(* RecordCall on a small instance: the keys, tasks and sweepers are model  *)
(* values, given by each configuration.                                    *)
(***************************************************************************)
EXTENDS RecordCall, TLC

\* Tasks and sweepers are interchangeable: used by the configurations that
\* check invariants only.
Symmetry == Permutations(Tasks) \union Permutations(Sweepers)

\* Both resolutions of is_deep, or only one of them.
BothModes == {TRUE, FALSE}
DeepOnly == {TRUE}

=============================================================================
