-------------------------- MODULE MCFusedExecution --------------------------
(* FusedExecution on small sets; the callee is the identity, which tells   *)
(* any two results apart whose arguments differ.                           *)
EXTENDS FusedExecution

MCResult == [a \in Vals |-> a]

(* Calls are numbers here.  The specification treats them alike, so it is  *)
(* enough to have them come into the caller in their order.                *)
FirstFewPlain ==
  \A c \in Calls : call[c] = "plain" => \A d \in 1..c : call[d] = "plain"

ArriveInOrder ==
  \A c \in Calls : call[c] = "absent" /\ call'[c] # "absent" =>
    \A d \in 1..c : call'[d] # "absent"

MCInit == FusedInit /\ FirstFewPlain
MCNext == Running \/ (Next /\ ArriveInOrder /\ UNCHANGED runVars)

MCSpec ==
  /\ MCInit /\ [][MCNext]_<<vars, runVars>>
  /\ WF_<<vars, runVars>>(CallBlock)
  /\ WF_<<vars, runVars>>(SwitchBack)
=============================================================================
