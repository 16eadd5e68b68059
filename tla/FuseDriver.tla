----------------------------- MODULE FuseDriver -----------------------------
(***************************************************************************)
(* FuseFunctionsPass::run over a whole module: combine the candidate       *)
(* calls, inline what combine_calls put in the worklist, clean up cloned   *)
(* call sites, combine again, until the worklist stays empty; then erase   *)
(* the inlined functions that nothing calls any more.                      *)
(*                                                                         *)
(* What happens inside a caller is the subject of CombinedCallSite; here a *)
(* function body is the number of its calls to each function, and of its   *)
(* combined call sites.  Counts stop at Many: the code only asks whether   *)
(* there are none, one or several.                                         *)
(***************************************************************************)
EXTENDS Integers, FiniteSets, Sequences

CONSTANTS
  N,               \* number of functions; the module lists them as 1..N
  IgnoreNoInline,  \* the option of the pass
  Exported         \* functions with external linkage

ASSUME NAssumption == N \in Nat \ {0}
ASSUME OptionAssumption == IgnoreNoInline \in BOOLEAN
ASSUME ExportedAssumption == Exported \subseteq 1..N

VARIABLES
  kind,     \* kind[f]: attributes of f that the pass asks for
  phase,    \* where run() is
  calls,    \* calls[f][g]: candidate calls of g in f, and the self-calls
  queued,   \* queued[f][g]: is a call of g in f in the worklist?
  failed,   \* failed[f][g]: calls of g in f that could not be inlined
  sites,    \* sites[f][g]: combined call sites for g in f
  targets,  \* callTargets: what was inlined, in order of first inlining
  alive     \* the functions still in the module

bodyVars == <<calls, queued, failed, sites>>
vars == <<kind, phase, bodyVars, targets, alive>>

Funcs == 1..N
Many == 2
Kinds == {"plain", "noinline", "optnone", "declaration", "uninlinable"}

(* Counts are only told apart below Many.                                  *)
Sat(n) == IF n > Many THEN Many ELSE n

(* A function whose calls the pass looks at.                               *)
Caller(f) ==
  /\ kind[f] \notin {"optnone", "declaration"}
  /\ IgnoreNoInline \/ kind[f] # "noinline"

(* Mutant: self-calls are taken for candidates.                            *)
CandidateOrSelf(f, g) ==
  f \in alive /\ Caller(f) /\ kind[g] # "declaration" /\ calls[f][g] > 0

(* Mutant: the attributes of the caller are not looked at.                 *)
CandidateAnywhere(f, g) ==
  /\ f \in alive /\ g # f /\ kind[g] # "declaration"
  /\ calls[f][g] > 0

(* get_candidate_call_sites finds calls of g in f.  Neither noinline nor   *)
(* optnone is asked of the callee.                                         *)
Candidate(f, g) ==
  /\ f \in alive /\ Caller(f)
  /\ g # f /\ kind[g] # "declaration"
  /\ calls[f][g] > 0

(* The callers that get_candidate_call_sites returns.                      *)
CallMap == {f \in Funcs : \E g \in Funcs : Candidate(f, g)}

WorkList == {w \in Funcs \X Funcs : queued[w[1]][w[2]]}

Init ==
  /\ kind \in [Funcs -> Kinds]
  /\ calls \in [Funcs -> [Funcs -> 0..Many]]
  /\ \A f \in Funcs : kind[f] = "declaration" => \A g \in Funcs : calls[f][g] = 0
  /\ queued = [f \in Funcs |-> [g \in Funcs |-> FALSE]]
  /\ failed = [f \in Funcs |-> [g \in Funcs |-> 0]]
  /\ sites = [f \in Funcs |-> [g \in Funcs |-> 0]]
  /\ phase = "combine"
  /\ targets = <<>>
  /\ alive = Funcs

(* Mutant: a new site's call is not put in the worklist, so the loop ends. *)
CombineCallsQuietly ==
  /\ phase = "combine"
  /\ sites' = [f \in Funcs |-> [g \in Funcs |->
        IF Candidate(f, g) /\ calls[f][g] > 1 /\ sites[f][g] = 0
        THEN 1 ELSE sites[f][g]]]
  /\ queued' = [f \in Funcs |-> [g \in Funcs |->
        Candidate(f, g) /\ (calls[f][g] = 1 \/ sites[f][g] = 0)]]
  /\ calls' = [f \in Funcs |-> [g \in Funcs |->
        IF Candidate(f, g) THEN 0 ELSE calls[f][g]]]
  /\ phase' = IF \E f, g \in Funcs : Candidate(f, g) /\ calls[f][g] = 1
              THEN "inline" ELSE "erase"
  /\ UNCHANGED <<kind, failed, targets, alive>>

(* combine_calls: a lone call is queued as it is; several get a new site   *)
(* whose call is queued, or are absorbed by the site there is, which       *)
(* queues nothing.                                                         *)
CombineCalls ==
  /\ phase = "combine"
  /\ queued' = [f \in Funcs |-> [g \in Funcs |->
        Candidate(f, g) /\ (calls[f][g] = 1 \/ sites[f][g] = 0)]]
  /\ sites' = [f \in Funcs |-> [g \in Funcs |->
        IF Candidate(f, g) /\ calls[f][g] > 1 /\ sites[f][g] = 0
        THEN 1 ELSE sites[f][g]]]
  /\ calls' = [f \in Funcs |-> [g \in Funcs |->
        IF Candidate(f, g) THEN 0 ELSE calls[f][g]]]
  /\ phase' = IF \E w \in Funcs \X Funcs : queued'[w[1]][w[2]]
              THEN "inline" ELSE "erase"
  /\ UNCHANGED <<kind, failed, targets, alive>>

(* Mutant: the clone forgets the calls that are in the worklist.           *)
ClonedUnqueued(g, h) == calls[g][h] + failed[g][h] - (IF queued[g][h] THEN 1 ELSE 0)

(* Mutant: self-calls are not cloned.                                      *)
ClonedOthers(g, h) ==
  IF g = h THEN 0
  ELSE calls[g][h] + failed[g][h] + (IF queued[g][h] THEN 1 ELSE 0)

(* The calls of h that a clone of the body of g brings along: those in the *)
(* worklist and those that failed are plain calls in the clone.            *)
ClonedCalls(g, h) ==
  calls[g][h] + failed[g][h] + (IF queued[g][h] THEN 1 ELSE 0)

(* The worklist is a stack: the last caller of the module comes first.     *)
OnTop(w) == w \in WorkList /\ \A v \in WorkList : v[1] <= w[1]

(* InlineFunction replaces the queued call of g in f by the body of g.     *)
InlineCall(f, g) ==
  /\ phase = "inline" /\ OnTop(<<f, g>>) /\ kind[g] # "uninlinable"
  /\ queued' = [queued EXCEPT ![f][g] = FALSE]
  /\ calls' = [calls EXCEPT ![f] =
        [h \in Funcs |-> Sat(calls[f][h] + ClonedCalls(g, h))]]
  /\ sites' = [sites EXCEPT ![f] =
        [h \in Funcs |-> Sat(sites[f][h] + sites[g][h])]]
  /\ targets' = IF \E i \in DOMAIN targets : targets[i] = g
                THEN targets ELSE Append(targets, g)
  /\ UNCHANGED <<kind, phase, failed, alive>>

(* Mutant: a call that failed is a candidate again.                        *)
InlineFailsRetried(f, g) ==
  /\ phase = "inline" /\ OnTop(<<f, g>>) /\ kind[g] = "uninlinable"
  /\ queued' = [queued EXCEPT ![f][g] = FALSE]
  /\ calls' = [calls EXCEPT ![f][g] = Sat(@ + 1)]
  /\ UNCHANGED <<kind, phase, failed, sites, targets, alive>>

(* InlineFunction refuses; the call is ignored from now on.                *)
InlineFails(f, g) ==
  /\ phase = "inline" /\ OnTop(<<f, g>>) /\ kind[g] = "uninlinable"
  /\ queued' = [queued EXCEPT ![f][g] = FALSE]
  /\ failed' = [failed EXCEPT ![f][g] = Sat(@ + 1)]
  /\ UNCHANGED <<kind, phase, calls, sites, targets, alive>>

(* Mutant: cloned sites are left as they are.                              *)
NoCleanUp ==
  /\ phase = "inline" /\ WorkList = {}
  /\ phase' = "combine"
  /\ UNCHANGED <<kind, bodyVars, targets, alive>>

(* Merge the sites that inlining cloned, in the callers that still have    *)
(* candidates.                                                             *)
CleanUp ==
  /\ phase = "inline" /\ WorkList = {}
  /\ sites' = [f \in Funcs |-> [g \in Funcs |->
        IF f \in CallMap /\ sites[f][g] > 1 THEN 1 ELSE sites[f][g]]]
  /\ phase' = "combine"
  /\ UNCHANGED <<kind, calls, queued, failed, targets, alive>>

(* A call of g is left in f.                                               *)
Calls(f, g) == calls[f][g] + failed[f][g] > 0 \/ queued[f][g]

(* Mutant: users are not looked at.                                        *)
LocalIsDead(g) == g \notin Exported

(* isDefTriviallyDead(g): local linkage and no user.                       *)
TriviallyDead(g) ==
  g \notin Exported /\ \A f \in alive : ~ Calls(f, g)

EraseTarget ==
  /\ phase = "erase" /\ targets # <<>>
  /\ alive' = IF TriviallyDead(Head(targets))
              THEN alive \ {Head(targets)} ELSE alive
  /\ targets' = Tail(targets)
  /\ UNCHANGED <<kind, phase, bodyVars>>

(* A set of functions that has the roots and what its members call.        *)
Closed(S) ==
  /\ Exported \cap alive \subseteq S
  /\ \A f \in S, g \in alive : Calls(f, g) => g \in S

(* The final pipeline's globaldce keeps the least such set.                *)
Reachable == {g \in alive : \A S \in SUBSET alive : Closed(S) => g \in S}

GlobalDCE ==
  /\ phase = "erase" /\ targets = <<>>
  /\ alive' = Reachable
  /\ phase' = "done"
  /\ UNCHANGED <<kind, bodyVars, targets>>

Done == phase = "done" /\ UNCHANGED vars

Next ==
  \/ CombineCalls \/ CleanUp \/ EraseTarget \/ GlobalDCE \/ Done
  \/ \E f, g \in Funcs : InlineCall(f, g) \/ InlineFails(f, g)

Spec == Init /\ [][Next]_vars /\ WF_vars(Next)

-----------------------------------------------------------------------------
TypeOK ==
  /\ kind \in [Funcs -> Kinds]
  /\ phase \in {"combine", "inline", "erase", "done"}
  /\ calls \in [Funcs -> [Funcs -> 0..Many]]
  /\ queued \in [Funcs -> [Funcs -> BOOLEAN]]
  /\ failed \in [Funcs -> [Funcs -> 0..Many]]
  /\ sites \in [Funcs -> [Funcs -> 0..Many]]
  /\ targets \in Seq(Funcs)
  /\ alive \subseteq Funcs

(* combine_call and the lookups use front() of a caller's sites for a      *)
(* callee: when calls of g in f are about to be combined, f has at most    *)
(* one site for g, however many were cloned into it by inlining.           *)
OneSiteWhenCombining ==
  phase = "combine" =>
    \A f, g \in Funcs : Candidate(f, g) => sites[f][g] <= 1

(* A queued call can be inlined when its turn comes: its caller is one the *)
(* pass may change, its callee has a body, and it is not a self-call.      *)
WorkListValid ==
  \A f, g \in Funcs : queued[f][g] =>
    Caller(f) /\ g # f /\ kind[g] # "declaration"

(* When the loop has ended nothing was overlooked: no caller the pass may  *)
(* change still calls a function with a body, apart from calls of itself   *)
(* and calls that could not be inlined.                                    *)
DoneMeansDrained ==
  phase \in {"erase", "done"} =>
    \A f, g \in Funcs : ~ Candidate(f, g) /\ ~ queued[f][g]

(* A function is only erased when nothing left in the module calls it.     *)
ErasedHaveNoCallers ==
  \A f \in alive, g \in Funcs \ alive : ~ Calls(f, g)

(* optnone functions are never changed, and noinline ones only if the pass *)
(* was told to ignore the attribute.                                       *)
NonCallersUntouched ==
  [][\A f \in Funcs : ~ Caller(f) =>
       /\ calls'[f] = calls[f] /\ queued'[f] = queued[f]
       /\ failed'[f] = failed[f] /\ sites'[f] = sites[f]]_vars

(* f calls g and inlining may replace the call.                            *)
Edge(f, g) == calls[f][g] > 0 /\ kind[g] \notin {"declaration", "uninlinable"}

(* Some order of the functions has every such call go to a later one.      *)
Acyclic ==
  \E rank \in [Funcs -> Funcs] :
    \A f, g \in Funcs : Edge(f, g) => rank[f] < rank[g]

(* The do-while loop ends on a module without recursion.                   *)
Terminates == Acyclic => <>(phase = "done")

(* f's only calls are of g, nobody else calls g, and g only calls itself,  *)
(* at one place.                                                           *)
LoneRecursion(f, g) ==
  /\ f # g /\ Caller(f) /\ kind[g] \notin {"declaration", "uninlinable"}
  /\ \A h \in Funcs : (calls[f][h] > 0 <=> h = g) /\ (calls[h][g] > 0 <=> h \in {f, g})
  /\ \A h \in Funcs : calls[g][h] = IF h = g THEN 1 ELSE 0

(* Nothing in the loop guards against recursion: inlining a function that  *)
(* calls itself once brings back the lone call that was inlined, so the    *)
(* pass never ends on such a module.                                       *)
RecursionNeverEnds ==
  (\E f, g \in Funcs : LoneRecursion(f, g)) => [](phase # "done")

=============================================================================
