--------------------------------- MODULE MCChat ---------------------------------
(***************************************************************************)
(* Two chats of a session over two datasets.  The first gets two steps,    *)
(* independent of each other or not, and every tool that acts differently; *)
(* the second one step, which makes a cache table.                         *)
(***************************************************************************)
EXTENDS Chat, TLC

CONSTANTS c1, c2

MCPlans == c1 :> {<<FALSE, TRUE>>, <<FALSE, FALSE>>} @@ c2 :> {<<FALSE>>}
MCTools == c1 :> {"add", "derive", "plot", "use"} @@ c2 :> {"derive"}
=============================================================================
