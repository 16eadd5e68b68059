----------------------------- MODULE Selection -----------------------------
(***************************************************************************)
(* The elements of a sequence that are in a set, in order: SelectSeq for a *)
(* set in place of a predicate, with a definition that a proof can expand. *)
(***************************************************************************)
EXTENDS Integers, SequencesExt

Select(s, T) ==
  FlattenSeq([i \in DOMAIN s |-> IF s[i] \in T THEN <<s[i]>> ELSE <<>>])

=============================================================================
