---------------------------- MODULE MCFuseDriver ----------------------------
(* FuseDriver on the modules of three functions that have no recursion, or *)
(* only that of one function whose lone call is of itself.                 *)
EXTENDS FuseDriver

MCInit == Init /\ (Acyclic \/ \E f, g \in Funcs : LoneRecursion(f, g))

MCSpec == MCInit /\ [][Next]_vars /\ WF_vars(Next)
=============================================================================
