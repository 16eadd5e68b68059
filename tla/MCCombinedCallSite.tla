------------------------- MODULE MCCombinedCallSite -------------------------
(* CombinedCallSite on small sets of calls and sites.                      *)
EXTENDS CombinedCallSite, TLC

(* Neither the calls nor the sites are ordered in the specification; the   *)
(* calls without users and the stored calls are told apart from the rest.  *)
SiteSymmetry == Permutations(Sites)
CallSymmetry ==
  Permutations(Calls \ (Ignored \cup Stored)) \cup Permutations(Ignored)
Symmetry == SiteSymmetry \cup CallSymmetry
=============================================================================
